---- MODULE Spec2Model ----
(***************************************************************************)
(* Network Policy Manager (controller.py): catalog of alumnos, servidores  *)
(* and cursos, the authorization scan of crear_conexion, the topology      *)
(* lookups with their fallbacks, the flow bookkeeping of build_route and   *)
(* eliminar_flujos, and the connection registry.                           *)
(*                                                                         *)
(* Python values whose type matters are tagged records: a str is           *)
(* [t |-> "str", s |-> <<characters>>], an int is [t |-> "int", n |-> k],  *)
(* None is [t |-> "none"].  Service names are character sequences (always  *)
(* str in the documents considered); server names, course codes, display   *)
(* names, DPIDs and connection ids are atomic strings.                     *)
(***************************************************************************)
EXTENDS Integers, Sequences, FiniteSets, TLC

VARIABLES
  alumnos,          \* self.alumnos: codigo -> Alumno
  servidores,       \* self.servidores: nombre -> Servidor
  claves,           \* list(self.alumnos) and list(self.servidores): the keys of
                    \* the two dicts in insertion order
  cursos,           \* self.cursos in insertion order: sequence of Curso
  conexiones,       \* self.conexiones: id -> Conexion
  conexion_flujos,  \* self.conexion_flujos: id -> list of recorded flows
  pc,               \* position of the single flow of control
  loc,              \* locals of the call in progress
  ret               \* the last completed call and its outcome

vars == <<alumnos, servidores, claves, cursos, conexiones, conexion_flujos, pc, loc, ret>>

-----------------------------------------------------------------------------
(* Bounds *)

\* number of distinct values str(uuid.uuid4())[:8] takes
MaxIds ==
  1

\* longest path the controller answers to a route query
MaxHops ==
  2

-----------------------------------------------------------------------------
(* Python values and the str methods the program uses *)

PyStr(chars) ==
  [t |-> "str", s |-> chars]

PyInt(k) ==
  [t |-> "int", n |-> k]

PyNone ==
  [t |-> "none"]

IsStr(x) ==
  x.t = "str"

\* Characters are those of Latin-1 (U+0000 to U+00FF), each written as itself;
\* the three characters outside Latin-1 that upper() and lower() lead to from
\* there are written by their code point: "U+0178" (capital y with
\* diaeresis), "U+039C" (Greek capital mu) and "U+03BC" (Greek small mu).

\* the lower-case form of each character that str.lower() changes
LowerOf ==
  "A" :> "a" @@
  "B" :> "b" @@
  "C" :> "c" @@
  "D" :> "d" @@
  "E" :> "e" @@
  "F" :> "f" @@
  "G" :> "g" @@
  "H" :> "h" @@
  "I" :> "i" @@
  "J" :> "j" @@
  "K" :> "k" @@
  "L" :> "l" @@
  "M" :> "m" @@
  "N" :> "n" @@
  "O" :> "o" @@
  "P" :> "p" @@
  "Q" :> "q" @@
  "R" :> "r" @@
  "S" :> "s" @@
  "T" :> "t" @@
  "U" :> "u" @@
  "V" :> "v" @@
  "W" :> "w" @@
  "X" :> "x" @@
  "Y" :> "y" @@
  "Z" :> "z" @@
  "À" :> "à" @@
  "Á" :> "á" @@
  "Â" :> "â" @@
  "Ã" :> "ã" @@
  "Ä" :> "ä" @@
  "Å" :> "å" @@
  "Æ" :> "æ" @@
  "Ç" :> "ç" @@
  "È" :> "è" @@
  "É" :> "é" @@
  "Ê" :> "ê" @@
  "Ë" :> "ë" @@
  "Ì" :> "ì" @@
  "Í" :> "í" @@
  "Î" :> "î" @@
  "Ï" :> "ï" @@
  "Ð" :> "ð" @@
  "Ñ" :> "ñ" @@
  "Ò" :> "ò" @@
  "Ó" :> "ó" @@
  "Ô" :> "ô" @@
  "Õ" :> "õ" @@
  "Ö" :> "ö" @@
  "Ø" :> "ø" @@
  "Ù" :> "ù" @@
  "Ú" :> "ú" @@
  "Û" :> "û" @@
  "Ü" :> "ü" @@
  "Ý" :> "ý" @@
  "Þ" :> "þ" @@
  "U+039C" :> "U+03BC" @@
  "U+0178" :> "ÿ"

\* the upper-case form of each character that str.upper() changes; the upper
\* case of the sharp s is two characters
UpperOf ==
  "a" :> <<"A">> @@
  "b" :> <<"B">> @@
  "c" :> <<"C">> @@
  "d" :> <<"D">> @@
  "e" :> <<"E">> @@
  "f" :> <<"F">> @@
  "g" :> <<"G">> @@
  "h" :> <<"H">> @@
  "i" :> <<"I">> @@
  "j" :> <<"J">> @@
  "k" :> <<"K">> @@
  "l" :> <<"L">> @@
  "m" :> <<"M">> @@
  "n" :> <<"N">> @@
  "o" :> <<"O">> @@
  "p" :> <<"P">> @@
  "q" :> <<"Q">> @@
  "r" :> <<"R">> @@
  "s" :> <<"S">> @@
  "t" :> <<"T">> @@
  "u" :> <<"U">> @@
  "v" :> <<"V">> @@
  "w" :> <<"W">> @@
  "x" :> <<"X">> @@
  "y" :> <<"Y">> @@
  "z" :> <<"Z">> @@
  "µ" :> <<"U+039C">> @@
  "ß" :> <<"S", "S">> @@
  "à" :> <<"À">> @@
  "á" :> <<"Á">> @@
  "â" :> <<"Â">> @@
  "ã" :> <<"Ã">> @@
  "ä" :> <<"Ä">> @@
  "å" :> <<"Å">> @@
  "æ" :> <<"Æ">> @@
  "ç" :> <<"Ç">> @@
  "è" :> <<"È">> @@
  "é" :> <<"É">> @@
  "ê" :> <<"Ê">> @@
  "ë" :> <<"Ë">> @@
  "ì" :> <<"Ì">> @@
  "í" :> <<"Í">> @@
  "î" :> <<"Î">> @@
  "ï" :> <<"Ï">> @@
  "ð" :> <<"Ð">> @@
  "ñ" :> <<"Ñ">> @@
  "ò" :> <<"Ò">> @@
  "ó" :> <<"Ó">> @@
  "ô" :> <<"Ô">> @@
  "õ" :> <<"Õ">> @@
  "ö" :> <<"Ö">> @@
  "ø" :> <<"Ø">> @@
  "ù" :> <<"Ù">> @@
  "ú" :> <<"Ú">> @@
  "û" :> <<"Û">> @@
  "ü" :> <<"Ü">> @@
  "ý" :> <<"Ý">> @@
  "þ" :> <<"Þ">> @@
  "ÿ" :> <<"U+0178">> @@
  "U+03BC" :> <<"U+039C">>

\* lower case leaving every letter as it is
LowerChar_sin_cambio(c) ==
  c

\* c.lower() for one character: always one character
LowerChar(c) ==
  IF c \in DOMAIN LowerOf THEN LowerOf[c] ELSE c

\* c.upper() for one character, as characters
UpperChar(c) ==
  IF c \in DOMAIN UpperOf THEN UpperOf[c] ELSE <<c>>

\* str.lower()
RECURSIVE lower(_)
lower(chars) ==
  IF chars = <<>> THEN <<>>
  ELSE <<LowerChar(Head(chars))>> \o lower(Tail(chars))

\* str.upper()
RECURSIVE upper(_)
upper(chars) ==
  IF chars = <<>> THEN <<>>
  ELSE UpperChar(Head(chars)) \o upper(Tail(chars))

\* str.replace(c, '')
replace(chars, c) ==
  SelectSeq(chars, LAMBDA x : x # c)

\* a in b for two str
IsSubstring(a, b) ==
  \E k \in 0..(Len(b) - Len(a)) : SubSeq(b, k + 1, k + Len(a)) = a

\* x in lista for a list (== on every element)
InList(x, lista) ==
  \E k \in 1..Len(lista) : lista[k] = x

\* the characters str.strip() removes: those for which str.isspace() holds
Whitespace ==
  {"\t", "\n", "", "\f", "\r", "", "", "", "", " ", "", " "}

RECURSIVE lstrip(_)
lstrip(chars) ==
  IF chars # <<>> /\ Head(chars) \in Whitespace THEN lstrip(Tail(chars)) ELSE chars

RECURSIVE rstrip(_)
rstrip(chars) ==
  IF chars # <<>> /\ chars[Len(chars)] \in Whitespace
  THEN rstrip(SubSeq(chars, 1, Len(chars) - 1))
  ELSE chars

\* str.strip()
strip(chars) ==
  rstrip(lstrip(chars))

DigitChars ==
  <<"0","1","2","3","4","5","6","7","8","9">>

RECURSIVE Digits(_)
Digits(k) ==
  IF k < 10 THEN <<DigitChars[k + 1]>>
  ELSE Append(Digits(k \div 10), DigitChars[(k % 10) + 1])

\* str(x) of a str, a non-negative int or None, as characters
str(x) ==
  IF x.t = "str" THEN x.s
  ELSE IF x.t = "int" THEN Digits(x.n)
  ELSE <<"N","o","n","e">>

\* normalisation of a hardware address: lower case, ':' and '-' removed
mac_norm(chars) ==
  replace(replace(lower(chars), ":"), "-")

-----------------------------------------------------------------------------
(* Fixed tables of the program *)

\* mac_map of get_attachment_point, in dict order
mac_map ==
  <<
    [key |-> <<"a","a",":","5","1",":","a","a",":","b","a",":","7","2",":","4","1">>,
     dpid |-> "00:00:aa:51:aa:ba:72:41", port |-> 2],
    [key |-> <<"1","a",":","7","4",":","7","2",":","3","f",":","e","f",":","4","4">>,
     dpid |-> "00:00:1a:74:72:3f:ef:44", port |-> 2],
    [key |-> <<"f","e",":","1","6",":","3","e",":","2","c",":","7","6",":","5","2">>,
     dpid |-> "00:00:5e:c7:6e:c6:11:4c", port |-> 1],
    [key |-> <<"f","a",":","1","6",":","3","e",":","f","4",":","1","f",":","1","1">>,
     dpid |-> "00:00:aa:51:aa:ba:72:41", port |-> 2],
    [key |-> <<"f","e",":","1","6",":","3","e",":","6","c",":","c","f",":","e","4">>,
     dpid |-> "00:00:f2:20:f9:45:4c:4e", port |-> 3],
    [key |-> <<"5","e",":","c","7",":","6","e",":","c","6",":","1","1",":","4","c">>,
     dpid |-> "00:00:5e:c7:6e:c6:11:4c", port |-> 2],
    [key |-> <<"f","a",":","1","6",":","3","e",":","c","d",":","5","b",":","b","d">>,
     dpid |-> "00:00:aa:51:aa:ba:72:41", port |-> 2],
    [key |-> <<"7","2",":","e","0",":","8","0",":","7","e",":","8","5",":","4","c">>,
     dpid |-> "00:00:72:e0:80:7e:85:4c", port |-> 2],
    [key |-> <<"f","e",":","1","6",":","3","e",":","d","5",":","9","2",":","7","4">>,
     dpid |-> "00:00:1a:74:72:3f:ef:44", port |-> 3],
    [key |-> <<"f","a",":","1","6",":","3","e",":","0","5",":","f","4",":","0","8">>,
     dpid |-> "00:00:5e:c7:6e:c6:11:4c", port |-> 1],
    [key |-> <<"f","e",":","1","6",":","3","e",":","e","c",":","d","f",":","2","6">>,
     dpid |-> "00:00:aa:51:aa:ba:72:41", port |-> 5],
    [key |-> <<"f","a",":","1","6",":","3","e",":","c","4",":","a","9",":","9","d">>,
     dpid |-> "00:00:f2:20:f9:45:4c:4e", port |-> 3],
    [key |-> <<"f","a",":","1","6",":","3","e",":","3","f",":","1","a",":","f","d">>,
     dpid |-> "00:00:5e:c7:6e:c6:11:4c", port |-> 3],
    [key |-> <<"f","e",":","1","6",":","3","e",":","8","4",":","3","4",":","5","2">>,
     dpid |-> "00:00:5e:c7:6e:c6:11:4c", port |-> 3],
    [key |-> <<"f","e",":","1","6",":","3","e",":","d","c",":","6","e",":","f","a">>,
     dpid |-> "00:00:72:e0:80:7e:85:4c", port |-> 2],
    [key |-> <<"f","a",":","1","6",":","3","e",":","d","6",":","a","2",":","a","3">>,
     dpid |-> "00:00:1a:74:72:3f:ef:44", port |-> 3],
    [key |-> <<"f","e",":","1","6",":","3","e",":","d","3",":","0","2",":","3","6">>,
     dpid |-> "00:00:aa:51:aa:ba:72:41", port |-> 2],
    [key |-> <<"f","2",":","2","0",":","f","9",":","4","5",":","4","c",":","4","e">>,
     dpid |-> "00:00:f2:20:f9:45:4c:4e", port |-> 3],
    [key |-> <<"f","e",":","1","6",":","3","e",":","8","b",":","e","b",":","d","f">>,
     dpid |-> "00:00:72:e0:80:7e:85:4c", port |-> 2]
  >>

\* the keys of mac_map as the lookup loop compares them
RECURSIVE mac_map_keys(_)
mac_map_keys(k) ==
  IF k > Len(mac_map) THEN <<>>
  ELSE <<mac_norm(mac_map[k].key)>> \o mac_map_keys(k + 1)

mac_map_norm ==
  mac_map_keys(1)

\* the generic attachment point returned when nothing matches
ap_generico ==
  [dpid |-> "00:00:5e:c7:6e:c6:11:4c", port |-> 3]

\* simulated hardware address of every server
servidor_mac ==
  PyStr(<<"f","a",":","1","6",":","3","e",":","6","c",":","a","0",":","7","c">>)

-----------------------------------------------------------------------------
(* Entities *)

Has(r, f) ==
  f \in DOMAIN r

EmptyMap ==
  [x \in {} |-> x]

\* d[k] = v on a dict used as a map
Put(d, k, v) ==
  [x \in (DOMAIN d) \cup {k} |-> IF x = k THEN v ELSE d[x]]

\* del d[k]
Del(d, k) ==
  [x \in (DOMAIN d) \ {k} |-> d[x]]

Alumno(nombre, codigo, mac) ==
  [nombre |-> nombre, codigo |-> codigo, mac |-> mac]

Servicio(nombre, protocolo, puerto) ==
  [nombre |-> nombre, protocolo |-> protocolo, puerto |-> puerto]

Servidor(nombre, ip) ==
  [nombre |-> nombre, ip |-> ip, servicios |-> <<>>]

agregar_servicio(servidor, servicio) ==
  [servidor EXCEPT !.servicios = Append(@, servicio)]

Curso(codigo, nombre, estado) ==
  [codigo |-> codigo, nombre |-> nombre, estado |-> estado,
   alumnos |-> <<>>, servidores |-> <<>>]

\* agregar_alumno without the membership test
agregar_alumno_sin_comprobar(curso, codigo_alumno) ==
  [curso EXCEPT !.alumnos = Append(@, codigo_alumno)]

agregar_alumno(curso, codigo_alumno) ==
  IF ~ InList(codigo_alumno, curso.alumnos)
  THEN [curso EXCEPT !.alumnos = Append(@, codigo_alumno)]
  ELSE curso

\* list.remove: drops the first occurrence
RemoveFirst(lista, x) ==
  LET k == CHOOSE j \in 1..Len(lista) :
             lista[j] = x /\ \A h \in 1..(j - 1) : lista[h] # x
  IN SubSeq(lista, 1, k - 1) \o SubSeq(lista, k + 1, Len(lista))

remover_alumno(curso, codigo_alumno) ==
  IF InList(codigo_alumno, curso.alumnos)
  THEN [curso EXCEPT !.alumnos = RemoveFirst(@, codigo_alumno)]
  ELSE curso

\* agregar_servidor keeping a server built from the name and the address
\* instead of the server it was given
agregar_servidor_copia(curso, servidor, servicios_permitidos) ==
  [curso EXCEPT !.servidores =
     Append(@, [srv |-> Servidor(servidor.nombre, servidor.ip),
                servicios_permitidos |-> servicios_permitidos])]

agregar_servidor(curso, servidor, servicios_permitidos) ==
  [curso EXCEPT !.servidores =
     Append(@, [srv |-> servidor, servicios_permitidos |-> servicios_permitidos])]

\* position of a course code in self.cursos, 0 when absent
CursoIndex(cs, codigo) ==
  IF \E k \in 1..Len(cs) : cs[k].codigo = codigo
  THEN CHOOSE k \in 1..Len(cs) : cs[k].codigo = codigo
  ELSE 0

\* the keys of a dict after d[k] = v: a new key goes last, a known key keeps
\* its place
PutClave(ks, k) ==
  IF InList(k, ks) THEN ks ELSE Append(ks, k)

\* self.cursos[curso.codigo] = curso: a new key goes last, a known key keeps its place
PutCurso(cs, curso) ==
  IF CursoIndex(cs, curso.codigo) = 0
  THEN Append(cs, curso)
  ELSE [cs EXCEPT ![CursoIndex(cs, curso.codigo)] = curso]

-----------------------------------------------------------------------------
(* importar_archivo: every loop of the loader as a fold.  A missing key of *)
(* a record is a KeyError: fatal in the servidores and alumnos loops,      *)
(* caught per course in the cursos loop.                                   *)

ServicioDataOk(d) ==
  Has(d, "nombre") /\ Has(d, "protocolo") /\ Has(d, "puerto")

ServidorDataOk(d) ==
  /\ Has(d, "nombre") /\ Has(d, "ip")
  /\ Has(d, "servicios") =>
       \A k \in 1..Len(d.servicios) : ServicioDataOk(d.servicios[k])

RECURSIVE cargar_servicios(_, _, _)
cargar_servicios(servidor, lista, k) ==
  IF k > Len(lista) THEN servidor
  ELSE cargar_servicios(
         agregar_servicio(servidor,
           Servicio(lista[k].nombre, lista[k].protocolo, lista[k].puerto)),
         lista, k + 1)

\* val is the dict, ks its keys in insertion order
RECURSIVE cargar_servidores(_, _, _, _)
cargar_servidores(lista, k, acc, ks) ==
  IF k > Len(lista) THEN [err |-> FALSE, val |-> acc, claves |-> ks]
  ELSE IF ~ ServidorDataOk(lista[k]) THEN [err |-> TRUE, val |-> acc, claves |-> ks]
  ELSE LET d == lista[k]
           base == Servidor(d.nombre, d.ip)
           servidor == IF Has(d, "servicios")
                       THEN cargar_servicios(base, d.servicios, 1)
                       ELSE base
       IN cargar_servidores(lista, k + 1, Put(acc, servidor.nombre, servidor),
                            PutClave(ks, servidor.nombre))

AlumnoDataOk(d) ==
  Has(d, "nombre") /\ Has(d, "codigo") /\ Has(d, "mac")

RECURSIVE cargar_alumnos(_, _, _, _)
cargar_alumnos(lista, k, acc, ks) ==
  IF k > Len(lista) THEN [err |-> FALSE, val |-> acc, claves |-> ks]
  ELSE IF ~ AlumnoDataOk(lista[k]) THEN [err |-> TRUE, val |-> acc, claves |-> ks]
  ELSE LET d == lista[k]
       IN cargar_alumnos(lista, k + 1,
                         Put(acc, d.codigo, Alumno(d.nombre, d.codigo, d.mac)),
                         PutClave(ks, d.codigo))

RECURSIVE cargar_alumnos_curso(_, _, _)
cargar_alumnos_curso(curso, lista, k) ==
  IF k > Len(lista) THEN curso
  ELSE cargar_alumnos_curso(
         agregar_alumno(curso, PyStr(strip(str(lista[k])))), lista, k + 1)

GrantDataOk(d) ==
  Has(d, "nombre") /\ Has(d, "servicios_permitidos")

RECURSIVE cargar_servidores_curso(_, _, _, _)
cargar_servidores_curso(curso, lista, k, srvs) ==
  IF k > Len(lista) THEN curso
  ELSE LET d == lista[k]
       IN cargar_servidores_curso(
            IF d.nombre \in DOMAIN srvs
            THEN agregar_servidor(curso, srvs[d.nombre], d.servicios_permitidos)
            ELSE curso,
            lista, k + 1, srvs)

CursoDataOk(d) ==
  /\ Has(d, "codigo") /\ Has(d, "nombre") /\ Has(d, "estado")
  /\ Has(d, "servidores") =>
       \A k \in 1..Len(d.servidores) : GrantDataOk(d.servidores[k])

cargar_curso(d, srvs) ==
  LET c0 == Curso(d.codigo, d.nombre, d.estado)
      c1 == IF Has(d, "alumnos") /\ d.alumnos # <<>>
            THEN cargar_alumnos_curso(c0, d.alumnos, 1)
            ELSE c0
  IN IF Has(d, "servidores")
     THEN cargar_servidores_curso(c1, d.servidores, 1, srvs)
     ELSE c1

RECURSIVE cargar_cursos(_, _, _, _)
cargar_cursos(lista, k, srvs, acc) ==
  IF k > Len(lista) THEN acc
  ELSE cargar_cursos(lista, k + 1, srvs,
         IF CursoDataOk(lista[k])
         THEN PutCurso(acc, cargar_curso(lista[k], srvs))
         ELSE acc)

\* importar_archivo giving up on the first course record it cannot load
importar_sin_tolerancia(cat, datos) ==
  IF ~ datos.legible THEN [ok |-> FALSE, cat |-> cat]
  ELSE
    LET rs == IF Has(datos, "servidores")
              THEN cargar_servidores(datos.servidores, 1, EmptyMap, <<>>)
              ELSE [err |-> FALSE, val |-> EmptyMap, claves |-> <<>>]
        ra == IF rs.err THEN [err |-> TRUE, val |-> EmptyMap, claves |-> <<>>]
              ELSE IF Has(datos, "alumnos")
              THEN cargar_alumnos(datos.alumnos, 1, EmptyMap, <<>>)
              ELSE [err |-> FALSE, val |-> EmptyMap, claves |-> <<>>]
        malo == Has(datos, "cursos")
                  /\ \E k \in 1..Len(datos.cursos) : ~ CursoDataOk(datos.cursos[k])
        cs == IF ra.err \/ malo THEN <<>>
              ELSE IF Has(datos, "cursos")
              THEN cargar_cursos(datos.cursos, 1, rs.val, <<>>)
              ELSE <<>>
    IN [ok |-> ~ ra.err /\ ~ malo,
        cat |-> [alumnos |-> ra.val, servidores |-> rs.val,
                 claves |-> [alumnos |-> ra.claves, servidores |-> rs.claves],
                 cursos |-> cs]]

\* the catalog and return value of importar_archivo(datos) from catalog cat;
\* datos.legible = FALSE stands for a file that cannot be opened or parsed
importar(cat, datos) ==
  IF ~ datos.legible THEN [ok |-> FALSE, cat |-> cat]
  ELSE
    LET rs == IF Has(datos, "servidores")
              THEN cargar_servidores(datos.servidores, 1, EmptyMap, <<>>)
              ELSE [err |-> FALSE, val |-> EmptyMap, claves |-> <<>>]
        ra == IF rs.err THEN [err |-> TRUE, val |-> EmptyMap, claves |-> <<>>]
              ELSE IF Has(datos, "alumnos")
              THEN cargar_alumnos(datos.alumnos, 1, EmptyMap, <<>>)
              ELSE [err |-> FALSE, val |-> EmptyMap, claves |-> <<>>]
        cs == IF ra.err THEN <<>>
              ELSE IF Has(datos, "cursos")
              THEN cargar_cursos(datos.cursos, 1, rs.val, <<>>)
              ELSE <<>>
    IN [ok |-> ~ ra.err,
        cat |-> [alumnos |-> ra.val, servidores |-> rs.val,
                 claves |-> [alumnos |-> ra.claves, servidores |-> rs.claves],
                 cursos |-> cs]]

-----------------------------------------------------------------------------
(* exportar_archivo: the document built from the catalog.  yaml.dump and    *)
(* yaml.safe_load keep a str a str, an int an int and None None, so the     *)
(* document read back has the values that were written.                     *)

\* the values of dict d as .items() yields them: in the insertion order ks of
\* its keys
Valores(d, ks) ==
  [k \in 1..Len(ks) |-> d[ks[k]]]

exportar_alumno(alumno) ==
  [nombre |-> alumno.nombre, codigo |-> alumno.codigo, mac |-> alumno.mac]

exportar_servidor(servidor) ==
  [nombre |-> servidor.nombre, ip |-> servidor.ip,
   servicios |-> [k \in 1..Len(servidor.servicios) |->
                    [nombre |-> servidor.servicios[k].nombre,
                     protocolo |-> servidor.servicios[k].protocolo,
                     puerto |-> servidor.servicios[k].puerto]]]

exportar_curso(curso) ==
  [codigo |-> curso.codigo, nombre |-> curso.nombre, estado |-> curso.estado,
   alumnos |-> curso.alumnos,
   servidores |-> [k \in 1..Len(curso.servidores) |->
                     [nombre |-> curso.servidores[k].srv.nombre,
                      servicios_permitidos |-> curso.servidores[k].servicios_permitidos]]]

\* the datos dict of exportar_archivo for catalog cat
exportar(cat) ==
  LET as == Valores(cat.alumnos, cat.claves.alumnos)
      ss == Valores(cat.servidores, cat.claves.servidores)
  IN [alumnos |-> [k \in 1..Len(as) |-> exportar_alumno(as[k])],
      servidores |-> [k \in 1..Len(ss) |-> exportar_servidor(ss[k])],
      cursos |-> [k \in 1..Len(cat.cursos) |-> exportar_curso(cat.cursos[k])]]

-----------------------------------------------------------------------------
(* Inputs: catalog documents, call arguments                                *)

svc_HTTP ==
  <<"H","T","T","P">>

svc_Http ==
  <<"H","t","t","p">>

svc_http ==
  <<"h","t","t","p">>

svc_ssh ==
  <<"s","s","h">>

svc_dns ==
  <<"d","n","s">>

cod101 ==
  PyStr(<<"1","0","1">>)

cod102 ==
  PyStr(<<"1","0","2">>)

cod103 ==
  PyStr(<<"1","0","3">>)

cod104 ==
  PyStr(<<"1","0","4">>)

\* in mac_map once normalised (upper case, '-' separators)
mac101 ==
  PyStr(<<"F","A","-","1","6","-","3","E","-","F","4","-","1","F","-","1","1">>)

\* an all-digit address written without quotes is loaded as an int
mac102 ==
  PyInt(123456)

\* a str that matches no mac_map key
mac103 ==
  PyStr(<<"a","a",":","b","b",":","c","c",":","d","d",":","e","e",":","0","1">>)

\* S1 exposes HTTP and ssh; S2 exposes dns with an empty protocolo (None)
DocServidores ==
  << [nombre |-> "S1", ip |-> "10.0.0.3",
      servicios |-> << [nombre |-> svc_HTTP, protocolo |-> PyStr(<<"t","c","p">>), puerto |-> 80],
                       [nombre |-> svc_ssh, protocolo |-> PyStr(<<"T","C","P">>), puerto |-> 22] >>],
     [nombre |-> "S2", ip |-> "10.0.0.4",
      servicios |-> << [nombre |-> svc_dns, protocolo |-> PyNone, puerto |-> 53] >>] >>

DocAlumnos ==
  << [nombre |-> "Ana", codigo |-> cod101, mac |-> mac101],
     [nombre |-> "Luis", codigo |-> cod102, mac |-> mac102] >>

DocCursos(estado1, estado2) ==
  << [codigo |-> "TEL1", nombre |-> "SDN", estado |-> estado1,
      alumnos |-> <<cod101, cod102, cod104>>,
      servidores |-> << [nombre |-> "S1", servicios_permitidos |-> <<svc_Http>>],
                        [nombre |-> "S2", servicios_permitidos |-> <<svc_dns, svc_http>>] >>],
     [codigo |-> "TEL2", nombre |-> "Redes", estado |-> estado2,
      alumnos |-> <<cod101, PyStr(<<" ","1","0","1">>), PyInt(101)>>,
      servidores |-> << [nombre |-> "S1", servicios_permitidos |-> <<svc_ssh, svc_Http>>] >>] >>

\* TEL1 is being taught, TEL2 is not
DocA ==
  [ruta_archivo |-> "a.yaml", legible |-> TRUE, servidores |-> DocServidores, alumnos |-> DocAlumnos,
   cursos |-> DocCursos("DICTANDO", "INACTIVO")]

\* a path that cannot be opened or parsed
DocIlegible ==
  [ruta_archivo |-> "x.yaml", legible |-> FALSE]

Documentos ==
  {DocA, DocIlegible}

\* "00:00:00:00:00:00:00:0k", the k-th switch of a controller path
DPID(k) ==
  "00:00:00:00:00:00:00:0" \o ToString(k)

\* answers of GET /wm/device/: a device list with status 200, or an error
\* (status 500 stands for any other status and for a request that raises)
RespError ==
  [status |-> 500]

\* the controller knows alumno 101 where the static table has it
DevicesA ==
  << [mac |-> << <<"f","a",":","1","6",":","3","e",":","f","4",":","1","f",":","1","1">> >>,
      attachmentPoint |-> << [switchDPID |-> "00:00:aa:51:aa:ba:72:41", port |-> 2] >>] >>

\* the controller knows alumno 103 without attachment point, alumno 101 with
\* an empty DPID and the server on port 0
DevicesB ==
  << [mac |-> << <<"A","A",":","B","B",":","C","C",":","D","D",":","E","E",":","0","1">> >>, attachmentPoint |-> <<>>],
     [mac |-> << <<"f","a",":","1","6",":","3","e",":","f","4",":","1","f",":","1","1">> >>,
      attachmentPoint |-> << [switchDPID |-> "", port |-> 2] >>],
     [mac |-> << <<"f","a",":","1","6",":","3","e",":","6","c",":","a","0",":","7","c">> >>,
      attachmentPoint |-> << [switchDPID |-> DPID(2), port |-> 0] >>] >>

RespuestasDevice ==
  {RespError, [status |-> 200, devices |-> DevicesA],
              [status |-> 200, devices |-> DevicesB]}

\* answers of GET /wm/topology/route/...: an error or a list of hops; the
\* controller paths considered are the prefixes of switch 1 port 2, switch 2
\* port 3, ...
HopControlador(k) ==
  [switch |-> DPID(k), port |-> k + 1]

RespuestasRuta ==
  {RespError} \cup
  { [status |-> 200, path |-> [k \in 1..n |-> HopControlador(k)]] : n \in 0..MaxHops }

\* longest route: a controller path or the two-hop fallback
MaxRuta ==
  IF MaxHops > 2 THEN MaxHops ELSE 2

\* values of str(uuid.uuid4())[:8]
IDs ==
  { "a1b2c3d" \o ToString(k) : k \in 1..MaxIds }

\* the crear_conexion requests considered: granted by TEL1; the same for the
\* alumno whose address is an int; a service whose protocolo is None; a
\* service granted only by a course that is not being taught; an alumno who
\* is unknown until crear_alumno and member of no course; an unknown server; a
\* service the server does not expose although a grant names it; a code that
\* a course lists as member but no alumno has; a server name in another case
Peticiones ==
  { <<cod101, "S1", svc_http>>, <<cod102, "S1", svc_http>>,
    <<cod101, "S2", svc_dns>>, <<cod101, "S1", svc_ssh>>,
    <<cod103, "S1", svc_http>>, <<cod101, "S9", svc_http>>,
    <<cod101, "S2", svc_http>>, <<cod104, "S1", svc_http>>,
    <<cod101, "s1", svc_http>> }

acc_agregar ==
  <<"A","g","r","e","g","a","r">>

acc_eliminar ==
  <<"e","l","i","m","i","n","a","r">>

acc_otra ==
  <<"m","o","v","e","r">>

CodigosCurso ==
  {"TEL1", "TEL9"}

\* the alumno that actualizar_curso enrolls in and removes from a course
CodigosActualizar ==
  {cod102}

Acciones ==
  {acc_agregar, acc_eliminar, acc_otra}

-----------------------------------------------------------------------------
(* Topology client *)

\* mac in [m.lower().replace(':', '').replace('-', '') for m in device_macs]
RECURSIVE DeviceListsMac(_, _, _)
DeviceListsMac(device_macs, norm, j) ==
  IF j > Len(device_macs) THEN FALSE
  ELSE IF mac_norm(device_macs[j]) = norm THEN TRUE
  ELSE DeviceListsMac(device_macs, norm, j + 1)

\* first device from position k on that lists the normalised address and has
\* an attachment point, 0 when there is none
RECURSIVE DeviceHit(_, _, _)
DeviceHit(devices, norm, k) ==
  IF k > Len(devices) THEN 0
  ELSE IF DeviceListsMac(devices[k].mac, norm, 1) /\ devices[k].attachmentPoint # <<>>
  THEN k
  ELSE DeviceHit(devices, norm, k + 1)

\* first mac_map entry from position k on whose normalised key contains the
\* normalised address, 0 when there is none
RECURSIVE MacMapHit(_, _)
MacMapHit(norm, k) ==
  IF k > Len(mac_map_norm) THEN 0
  ELSE IF IsSubstring(norm, mac_map_norm[k]) THEN k
  ELSE MacMapHit(norm, k + 1)

\* get_attachment_point(mac) when the controller answers resp.  An address that
\* is not a str makes mac.lower() raise: inside the try (line 450) the error is
\* swallowed and the fallback lookup (line 491) raises it again outside any
\* try, so the call raises whatever the controller answers.
get_attachment_point(mac, resp) ==
  IF ~ IsStr(mac) THEN [raise |-> TRUE, dpid |-> "", port |-> 0]
  ELSE
    LET norm == mac_norm(mac.s)
        hit == IF resp.status = 200 THEN DeviceHit(resp.devices, norm, 1) ELSE 0
        fila == MacMapHit(norm, 1)
    IN IF hit # 0
       THEN [raise |-> FALSE,
             dpid |-> resp.devices[hit].attachmentPoint[1].switchDPID,
             port |-> resp.devices[hit].attachmentPoint[1].port]
       ELSE IF fila # 0
       THEN [raise |-> FALSE, dpid |-> mac_map[fila].dpid, port |-> mac_map[fila].port]
       ELSE [raise |-> FALSE, dpid |-> ap_generico.dpid, port |-> ap_generico.port]

\* every hop of the answer has the keys the list comprehension reads; a hop
\* without one raises KeyError inside the try
RutaBienFormada(resp) ==
  \A k \in 1..Len(resp.path) : Has(resp.path[k], "switch") /\ Has(resp.path[k], "port")

\* get_route answering with an empty list when the controller fails
get_route_sin_respaldo(src_dpid, src_port, dst_dpid, dst_port, resp) ==
  IF resp.status = 200 /\ RutaBienFormada(resp)
  THEN [k \in 1..Len(resp.path) |-> <<resp.path[k].switch, resp.path[k].port>>]
  ELSE <<>>

\* get_route(...) when the controller answers resp: a list of <<switch, port>>
get_route(src_dpid, src_port, dst_dpid, dst_port, resp) ==
  IF resp.status = 200 /\ RutaBienFormada(resp)
  THEN [k \in 1..Len(resp.path) |-> <<resp.path[k].switch, resp.path[k].port>>]
  ELSE IF src_dpid = dst_dpid
  THEN << <<src_dpid, dst_port>> >>
  ELSE << <<src_dpid, 1>>, <<dst_dpid, dst_port>> >>

-----------------------------------------------------------------------------
(* Flow orchestration: the rules build_route derives for one hop *)

FlowName(prefijo, id, switch_dpid, p1, p2) ==
  prefijo \o id \o "_" \o switch_dpid \o "_" \o ToString(p1) \o "_" \o ToString(p2)

flow_name_forward(id, switch_dpid, in_port, out_port) ==
  FlowName("flow_alumno_to_servidor_", id, switch_dpid, in_port, out_port)

flow_name_reverse(id, switch_dpid, in_port, out_port) ==
  FlowName("flow_servidor_to_alumno_", id, switch_dpid, out_port, in_port)

flow_name_arp_forward(id, switch_dpid, in_port, out_port) ==
  FlowName("flow_arp_alumno_to_servidor_", id, switch_dpid, in_port, out_port)

flow_name_arp_reverse(id, switch_dpid, in_port, out_port) ==
  FlowName("flow_arp_servidor_to_alumno_", id, switch_dpid, out_port, in_port)

EsTCP(protocolo) ==
  upper(protocolo.s) = <<"T","C","P">>

flow_forward(c, switch_dpid, in_port, out_port) ==
  LET comun == [switch |-> switch_dpid,
                name |-> flow_name_forward(c.id, switch_dpid, in_port, out_port),
                cookie |-> "0", priority |-> "32768",
                in_port |-> ToString(in_port), eth_src |-> c.alumno.mac,
                eth_type |-> "0x0800", ipv4_dst |-> c.servidor.ip,
                ip_proto |-> IF EsTCP(c.servicio.protocolo) THEN "6" ELSE "17",
                active |-> "true", actions |-> "output=" \o ToString(out_port)]
  IN IF EsTCP(c.servicio.protocolo)
     THEN comun @@ [tcp_dst |-> ToString(c.servicio.puerto)]
     ELSE comun @@ [udp_dst |-> ToString(c.servicio.puerto)]

flow_reverse(c, switch_dpid, in_port, out_port) ==
  LET comun == [switch |-> switch_dpid,
                name |-> flow_name_reverse(c.id, switch_dpid, in_port, out_port),
                cookie |-> "0", priority |-> "32768",
                in_port |-> ToString(out_port), eth_dst |-> c.alumno.mac,
                eth_type |-> "0x0800", ipv4_src |-> c.servidor.ip,
                ip_proto |-> IF EsTCP(c.servicio.protocolo) THEN "6" ELSE "17",
                active |-> "true", actions |-> "output=" \o ToString(in_port)]
  IN IF EsTCP(c.servicio.protocolo)
     THEN comun @@ [tcp_src |-> ToString(c.servicio.puerto)]
     ELSE comun @@ [udp_src |-> ToString(c.servicio.puerto)]

flow_arp_forward(c, switch_dpid, in_port, out_port) ==
  [switch |-> switch_dpid,
   name |-> flow_name_arp_forward(c.id, switch_dpid, in_port, out_port),
   cookie |-> "0", priority |-> "32768",
   in_port |-> ToString(in_port), eth_src |-> c.alumno.mac,
   eth_type |-> "0x0806", active |-> "true",
   actions |-> "output=" \o ToString(out_port)]

flow_arp_reverse(c, switch_dpid, in_port, out_port) ==
  [switch |-> switch_dpid,
   name |-> flow_name_arp_reverse(c.id, switch_dpid, in_port, out_port),
   cookie |-> "0", priority |-> "32768",
   in_port |-> ToString(out_port), eth_type |-> "0x0806",
   eth_dst |-> c.alumno.mac, active |-> "true",
   actions |-> "output=" \o ToString(in_port)]

\* an element of flujos_instalados: a str (a rule name) or a dict (a rule)
EntradaStr(nombre) ==
  [t |-> "str", nombre |-> nombre]

EntradaDict(flujo) ==
  [t |-> "dict", flujo |-> flujo]

\* the four appends of one hop, in order (lines 652, 656, 660, 664)
entradas_hop(c, switch_dpid, in_port, out_port) ==
  << EntradaStr(flow_name_forward(c.id, switch_dpid, in_port, out_port)),
     EntradaStr(flow_name_reverse(c.id, switch_dpid, in_port, out_port)),
     EntradaDict(flow_arp_forward(c, switch_dpid, in_port, out_port)),
     EntradaDict(flow_arp_reverse(c, switch_dpid, in_port, out_port)) >>

-----------------------------------------------------------------------------
(* Policy: the lookups and the authorization scan of crear_conexion *)

\* buscar_servicio settling for the first service of the server when none
\* has the name
buscar_servicio_o_primero(servidor, nombre_servicio) ==
  LET hits == { k \in 1..Len(servidor.servicios) :
                  lower(servidor.servicios[k].nombre) = lower(nombre_servicio) }
  IN IF hits # {} THEN CHOOSE k \in hits : \A j \in hits : k <= j
     ELSE IF servidor.servicios # <<>> THEN 1 ELSE 0

\* lines 734-738: first service of the server with that name, case-insensitive
buscar_servicio(servidor, nombre_servicio) ==
  LET ok(k) == lower(servidor.servicios[k].nombre) = lower(nombre_servicio)
  IN IF \E k \in 1..Len(servidor.servicios) : ok(k)
     THEN CHOOSE k \in 1..Len(servidor.servicios) :
            ok(k) /\ \A h \in 1..(k - 1) : ~ ok(h)
     ELSE 0

\* grant_autoriza comparing the permitted names without lower()
grant_autoriza_exacto(grant, servidor, servicio) ==
  /\ grant.srv.nombre = servidor.nombre
  /\ InList(servicio.nombre, grant.servicios_permitidos)

\* line 756: one grant of a course against the requested server and service
grant_autoriza(grant, servidor, servicio) ==
  /\ grant.srv.nombre = servidor.nombre
  /\ \E k \in 1..Len(grant.servicios_permitidos) :
       lower(grant.servicios_permitidos[k]) = lower(servicio.nombre)

\* curso_autoriza without the test of curso.estado
curso_autoriza_sin_estado(curso, codigo_alumno, servidor, servicio) ==
  /\ InList(codigo_alumno, curso.alumnos)
  /\ \E k \in 1..Len(curso.servidores) :
       grant_autoriza(curso.servidores[k], servidor, servicio)

\* lines 749-759: one course against the request
curso_autoriza(curso, codigo_alumno, servidor, servicio) ==
  /\ curso.estado = "DICTANDO"
  /\ InList(codigo_alumno, curso.alumnos)
  /\ \E k \in 1..Len(curso.servidores) :
       grant_autoriza(curso.servidores[k], servidor, servicio)

\* the scan going on after a course has authorized: the last one is kept
donde_se_detiene_ultimo(hits) ==
  CHOOSE k \in hits : \A j \in hits : j <= k

\* lines 761-762: the break after the first course that authorizes
donde_se_detiene(hits) ==
  CHOOSE k \in hits : \A j \in hits : k <= j

\* the scan approving with the first course whatever it lists
autorizar_primer_curso(cs, codigo_alumno, servidor, servicio) ==
  IF cs # <<>> THEN 1 ELSE 0

\* lines 745-762: the scan in insertion order; the position of
\* curso_autorizador, 0 when autorizado stays False
autorizar(cs, codigo_alumno, servidor, servicio) ==
  LET hits == { k \in 1..Len(cs) :
                  curso_autoriza(cs[k], codigo_alumno, servidor, servicio) }
  IN IF hits # {} THEN donde_se_detiene(hits) ELSE 0

Conexion(id, alumno, servidor, servicio) ==
  [id |-> id, alumno |-> alumno, servidor |-> servidor, servicio |-> servicio,
   ruta |-> <<>>]

-----------------------------------------------------------------------------
(* State machine *)

NoLoc ==
  [op |-> "none"]

Init ==
  /\ alumnos = EmptyMap
  /\ servidores = EmptyMap
  /\ claves = [alumnos |-> <<>>, servidores |-> <<>>]
  /\ cursos = <<>>
  /\ conexiones = EmptyMap
  /\ conexion_flujos = EmptyMap
  /\ pc = "idle"
  /\ loc = NoLoc
  /\ ret = [op |-> "init"]

Catalogo ==
  [alumnos |-> alumnos, servidores |-> servidores, claves |-> claves,
   cursos |-> cursos]

\* the catalog and the return value r that importar_archivo leaves
cargado(r, ruta_archivo) ==
  /\ alumnos' = r.cat.alumnos
  /\ servidores' = r.cat.servidores
  /\ claves' = r.cat.claves
  /\ cursos' = r.cat.cursos
  /\ ret' = [op |-> "importar_archivo", result |-> r.ok,
             ruta_archivo |-> ruta_archivo]
  /\ UNCHANGED <<conexiones, conexion_flujos, pc, loc>>

\* importar_archivo dropping the connections together with the catalog
importar_archivo_sin_conexiones(datos) ==
  /\ pc = "idle"
  /\ LET r == importar(Catalogo, datos)
     IN /\ alumnos' = r.cat.alumnos
        /\ servidores' = r.cat.servidores
        /\ claves' = r.cat.claves
        /\ cursos' = r.cat.cursos
        /\ ret' = [op |-> "importar_archivo", result |-> r.ok,
                   ruta_archivo |-> datos.ruta_archivo]
  /\ conexiones' = IF datos.legible THEN EmptyMap ELSE conexiones
  /\ conexion_flujos' = IF datos.legible THEN EmptyMap ELSE conexion_flujos
  /\ UNCHANGED <<pc, loc>>

importar_archivo(datos) ==
  /\ pc = "idle"
  /\ cargado(importar(Catalogo, datos), datos.ruta_archivo)

crear_alumno(nombre, codigo, mac) ==
  /\ pc = "idle"
  /\ IF codigo \in DOMAIN alumnos
     THEN /\ UNCHANGED <<alumnos, claves>>
          /\ ret' = [op |-> "crear_alumno", result |-> FALSE]
     ELSE /\ alumnos' = Put(alumnos, codigo, Alumno(nombre, codigo, mac))
          /\ claves' = [claves EXCEPT !.alumnos = PutClave(@, codigo)]
          /\ ret' = [op |-> "crear_alumno", result |-> TRUE]
  /\ UNCHANGED <<servidores, cursos, conexiones, conexion_flujos, pc, loc>>

\* actualizar_curso without the lookup of the alumno in the catalog
actualizar_curso_sin_buscar_alumno(codigo_curso, codigo_alumno, accion) ==
  /\ pc = "idle"
  /\ LET k == CursoIndex(cursos, codigo_curso)
         r(b) == [op |-> "actualizar_curso", result |-> b,
                  codigo_curso |-> codigo_curso, codigo_alumno |-> codigo_alumno,
                  accion |-> accion,
                  miembro_antes |-> (k # 0 /\ InList(codigo_alumno, cursos[k].alumnos))]
     IN IF k = 0
        THEN UNCHANGED cursos /\ ret' = r(FALSE)
        ELSE IF lower(accion) = <<"a","g","r","e","g","a","r">>
        THEN /\ cursos' = [cursos EXCEPT ![k] = agregar_alumno(@, codigo_alumno)]
             /\ ret' = r(TRUE)
        ELSE IF lower(accion) = <<"e","l","i","m","i","n","a","r">>
        THEN /\ cursos' = [cursos EXCEPT ![k] = remover_alumno(@, codigo_alumno)]
             /\ ret' = r(TRUE)
        ELSE UNCHANGED cursos /\ ret' = r(FALSE)
  /\ UNCHANGED <<alumnos, servidores, claves, conexiones, conexion_flujos, pc, loc>>

\* ret also keeps the arguments and whether the alumno was a member of the
\* course when the call began
actualizar_curso(codigo_curso, codigo_alumno, accion) ==
  /\ pc = "idle"
  /\ LET k == CursoIndex(cursos, codigo_curso)
         r(b) == [op |-> "actualizar_curso", result |-> b,
                  codigo_curso |-> codigo_curso, codigo_alumno |-> codigo_alumno,
                  accion |-> accion,
                  miembro_antes |-> (k # 0 /\ InList(codigo_alumno, cursos[k].alumnos))]
     IN IF k = 0 \/ codigo_alumno \notin DOMAIN alumnos
        THEN UNCHANGED cursos /\ ret' = r(FALSE)
        ELSE IF lower(accion) = <<"a","g","r","e","g","a","r">>
        THEN /\ cursos' = [cursos EXCEPT ![k] = agregar_alumno(@, codigo_alumno)]
             /\ ret' = r(TRUE)
        ELSE IF lower(accion) = <<"e","l","i","m","i","n","a","r">>
        THEN /\ cursos' = [cursos EXCEPT ![k] = remover_alumno(@, codigo_alumno)]
             /\ ret' = r(TRUE)
        ELSE UNCHANGED cursos /\ ret' = r(FALSE)
  /\ UNCHANGED <<alumnos, servidores, claves, conexiones, conexion_flujos, pc, loc>>

\* escribible = FALSE stands for a path that cannot be opened for writing;
\* ret keeps the document written to the file
exportar_archivo(ruta_archivo, escribible) ==
  /\ pc = "idle"
  /\ ret' = IF escribible
            THEN [op |-> "exportar_archivo", result |-> TRUE,
                  ruta_archivo |-> ruta_archivo, datos |-> exportar(Catalogo)]
            ELSE [op |-> "exportar_archivo", result |-> FALSE,
                  ruta_archivo |-> ruta_archivo]
  /\ UNCHANGED <<alumnos, servidores, claves, cursos, conexiones, conexion_flujos, pc, loc>>

\* while a call is in progress there is no last outcome
RetEnCurso ==
  [op |-> "en_curso"]

\* the outcome of a crear_conexion call: result is "True", "False" or "raise";
\* etapa is the step at which the call ended; fallo_hop is the hop (from 1) at
\* which build_route stopped, 0 when it did not fail
RetCrear(codigo_alumno, nombre_servidor, nombre_servicio, result, etapa, curso, id, hop) ==
  [op |-> "crear_conexion", codigo_alumno |-> codigo_alumno,
   nombre_servidor |-> nombre_servidor, nombre_servicio |-> nombre_servicio,
   result |-> result, etapa |-> etapa, curso |-> curso, id |-> id,
   fallo_hop |-> hop]

RetLoc(result, etapa, hop) ==
  RetCrear(loc.codigo_alumno, loc.nombre_servidor, loc.nombre_servicio,
           result, etapa, loc.curso, loc.conexion.id, hop)

\* lines 721-773: lookups, authorization, Conexion(...) and its registration;
\* id is the value uuid4 yields.  loc.antes keeps the registry as the call
\* found it (a history value: the program has no such variable)
crear_conexion(codigo_alumno, nombre_servidor, nombre_servicio, id) ==
  /\ pc = "idle"
  /\ LET deny(etapa) ==
           /\ ret' = RetCrear(codigo_alumno, nombre_servidor, nombre_servicio,
                              "False", etapa, "", "", 0)
           /\ UNCHANGED <<conexiones, pc, loc>>
     IN IF codigo_alumno \notin DOMAIN alumnos THEN deny("alumno")
        ELSE IF nombre_servidor \notin DOMAIN servidores THEN deny("servidor")
        ELSE LET alumno == alumnos[codigo_alumno]
                 servidor == servidores[nombre_servidor]
                 s == buscar_servicio(servidor, nombre_servicio)
             IN IF s = 0 THEN deny("servicio")
                ELSE LET servicio == servidor.servicios[s]
                         k == autorizar(cursos, codigo_alumno, servidor, servicio)
                     IN IF k = 0 THEN deny("autorizacion")
                        ELSE LET conexion == Conexion(id, alumno, servidor, servicio)
                             IN /\ conexiones' = Put(conexiones, id, conexion)
                                /\ pc' = "topologia"
                                /\ loc' = [op |-> "crear_conexion",
                                           codigo_alumno |-> codigo_alumno,
                                           nombre_servidor |-> nombre_servidor,
                                           nombre_servicio |-> nombre_servicio,
                                           curso |-> cursos[k].codigo,
                                           conexion |-> conexion,
                                           antes |-> conexiones]
                                /\ ret' = RetEnCurso
  /\ UNCHANGED <<alumnos, servidores, claves, cursos, conexion_flujos>>

\* if not dpid or not port
Falsy(ap) ==
  ap.dpid = "" \/ ap.port = 0

\* lines 780-808: what crear_conexion does with the two attachment points
\* and the answer to the route query; the route is stored in the Conexion
\* object
crear_conexion_ruta(alumno_ap, servidor_ap, resp_ruta) ==
  /\ LET id == loc.conexion.id
         fin(result, etapa, cs) ==
           /\ conexiones' = cs
           /\ pc' = "idle" /\ loc' = NoLoc
           /\ ret' = RetLoc(result, etapa, 0)
         ruta == get_route(alumno_ap.dpid, alumno_ap.port,
                           servidor_ap.dpid, servidor_ap.port, resp_ruta)
     IN IF alumno_ap.raise THEN fin("raise", "ap_alumno", conexiones)
        ELSE IF Falsy(alumno_ap) THEN fin("False", "ap_alumno", Del(conexiones, id))
        ELSE IF servidor_ap.raise THEN fin("raise", "ap_servidor", conexiones)
        ELSE IF Falsy(servidor_ap) THEN fin("False", "ap_servidor", Del(conexiones, id))
        ELSE IF ruta = <<>> THEN fin("False", "ruta", Del(conexiones, id))
        ELSE /\ conexiones' = [conexiones EXCEPT ![id].ruta = ruta]
             /\ pc' = "build"
             /\ loc' = [loc EXCEPT !.conexion.ruta = ruta]
             /\ UNCHANGED ret
  /\ UNCHANGED <<alumnos, servidores, claves, cursos, conexion_flujos>>

\* lines 778-808: attachment point of the alumno (779), attachment point of
\* the server (789), route
crear_conexion_topologia(resp_alumno, resp_servidor, resp_ruta) ==
  /\ pc = "topologia"
  /\ crear_conexion_ruta(get_attachment_point(loc.conexion.alumno.mac, resp_alumno),
                         get_attachment_point(servidor_mac, resp_servidor),
                         resp_ruta)

\* where an exception is raised in the try block of build_route: <<k, r>> is
\* install step r (1..4) of hop k (from 1), <<0, 1>> is the print of line 668,
\* after the loop and after line 667 has recorded the flows, <<0, 0>> is
\* nowhere
SinFalla ==
  <<0, 0>>

TrasRegistrar ==
  <<0, 1>>

\* in_port taken from the attachment point of the alumno on every hop
puerto_entrada_siempre_alumno(ruta, i, alumno_puerto) ==
  alumno_puerto

\* lines 574-581: in_port of hop i (from 0)
puerto_entrada(ruta, i, alumno_puerto) ==
  IF i = 0 THEN alumno_puerto ELSE ruta[i][2]

\* lines 567-664: the loop of build_route from hop i (from 0) with acc the
\* flujos_instalados so far.  An exception raised in the body (the second
\* attachment-point lookup on the first hop, protocolo.upper() on a protocolo
\* that is not a str, or the install step falla) ends the loop.
RECURSIVE build_route_loop(_, _, _, _, _, _)
build_route_loop(ruta, conexion, resp, falla, i, acc) ==
  IF i = Len(ruta) THEN [ok |-> TRUE, flujos_instalados |-> acc, hop |-> 0]
  ELSE
    LET switch_dpid == ruta[i + 1][1]
        out_port == ruta[i + 1][2]
        ap == IF i = 0 THEN get_attachment_point(conexion.alumno.mac, resp)
              ELSE [raise |-> FALSE, dpid |-> "", port |-> 0]
        in_port == puerto_entrada(ruta, i, ap.port)
    IN IF ap.raise \/ ~ IsStr(conexion.servicio.protocolo)
       THEN [ok |-> FALSE, flujos_instalados |-> acc, hop |-> i + 1]
       ELSE LET nuevas == entradas_hop(conexion, switch_dpid, in_port, out_port)
            IN IF falla[1] = i + 1
               THEN [ok |-> FALSE,
                     flujos_instalados |-> acc \o SubSeq(nuevas, 1, falla[2] - 1),
                     hop |-> i + 1]
               ELSE build_route_loop(ruta, conexion, resp, falla, i + 1, acc \o nuevas)

\* build_route recording flujos_instalados also when the loop was interrupted
build_route_registra_parcial(flujos, ruta, conexion, resp, falla) ==
  IF ruta = <<>> THEN [ok |-> FALSE, flujos |-> flujos, hop |-> 0]
  ELSE LET r == build_route_loop(ruta, conexion, resp, falla, 0, <<>>)
       IN [ok |-> r.ok, flujos |-> Put(flujos, conexion.id, r.flujos_instalados),
           hop |-> r.hop]

\* build_route(ruta, conexion) on the flow table flujos: the return value and
\* the flow table afterwards (lines 553-555, 666-673).  An exception raised by
\* line 668 is caught at line 671 like any other: the call returns False and
\* the flows line 667 recorded stay recorded.  hop is the hop at which the loop
\* was interrupted, 0 when it was not
build_route(flujos, ruta, conexion, resp, falla) ==
  IF ruta = <<>> THEN [ok |-> FALSE, flujos |-> flujos, hop |-> 0]
  ELSE LET r == build_route_loop(ruta, conexion, resp, falla, 0, <<>>)
       IN IF r.ok
          THEN [ok |-> falla # TrasRegistrar,
                flujos |-> Put(flujos, conexion.id, r.flujos_instalados),
                hop |-> 0]
          ELSE [ok |-> FALSE, flujos |-> flujos, hop |-> r.hop]

\* lines 811-818: the end of crear_conexion once build_route has returned r
crear_conexion_fin(r) ==
  /\ IF r.ok
     THEN /\ conexion_flujos' = r.flujos
          /\ ret' = RetLoc("True", "ok", 0)
          /\ UNCHANGED conexiones
     ELSE /\ conexion_flujos' = r.flujos
          /\ conexiones' = Del(conexiones, loc.conexion.id)
          /\ ret' = RetLoc("False", "build", r.hop)
  /\ pc' = "idle" /\ loc' = NoLoc
  /\ UNCHANGED <<alumnos, servidores, claves, cursos>>

\* lines 810-818: build_route and the end of crear_conexion
crear_conexion_build(resp, falla) ==
  /\ pc = "build"
  /\ falla[1] <= Len(loc.conexion.ruta)
  /\ crear_conexion_fin(build_route(conexion_flujos, loc.conexion.ruta,
                                    loc.conexion, resp, falla))

\* no exception in eliminar_flujos
SinFallaEliminar ==
  "ninguna"

\* eliminar_flujos emptying the whole flow table
eliminar_flujos_todas(flujos, id_conexion, falla) ==
  IF id_conexion \notin DOMAIN flujos
  THEN [ok |-> FALSE, flujos |-> flujos]
  ELSE [ok |-> TRUE, flujos |-> EmptyMap]

\* eliminar_flujos(id_conexion) on the flow table flujos.  falla is where an
\* exception is raised in the try block (caught at line 704): "bucle" at the
\* print of a flow in the loop (line 694, reached only when the list has a
\* flow), "resumen" at the print of line 701, after line 700 has deleted the
\* entry
eliminar_flujos(flujos, id_conexion, falla) ==
  IF id_conexion \notin DOMAIN flujos
  THEN [ok |-> FALSE, flujos |-> flujos]
  ELSE IF falla = "bucle" /\ flujos[id_conexion] # <<>>
  THEN [ok |-> FALSE, flujos |-> flujos]
  ELSE [ok |-> falla # "resumen", flujos |-> Del(flujos, id_conexion)]

\* the lookup of borrar_conexion finding every id
registrada_siempre(id_conexion) ==
  TRUE

\* line 830: id_conexion in self.conexiones
registrada(id_conexion) ==
  id_conexion \in DOMAIN conexiones

\* borrar_conexion never finding recorded flows
tiene_flujos_nunca(id_conexion) ==
  FALSE

\* line 838: id_conexion in self.conexion_flujos
tiene_flujos(id_conexion) ==
  id_conexion \in DOMAIN conexion_flujos

\* lines 830-841: lookup of the connection and removal of its flows; eliminar
\* records what eliminar_flujos returned, "no" when it was not called
borrar_conexion(id_conexion, falla) ==
  /\ pc = "idle"
  /\ IF ~ registrada(id_conexion)
     THEN /\ ret' = [op |-> "borrar_conexion", id_conexion |-> id_conexion,
                     result |-> FALSE, eliminar |-> "no"]
          /\ UNCHANGED <<conexion_flujos, pc, loc>>
     ELSE IF tiene_flujos(id_conexion)
     THEN LET r == eliminar_flujos(conexion_flujos, id_conexion, falla)
          IN /\ conexion_flujos' = r.flujos
             /\ pc' = "borrar_del"
             /\ loc' = [op |-> "borrar_conexion", id_conexion |-> id_conexion,
                        eliminar |-> IF r.ok THEN "True" ELSE "False"]
             /\ ret' = RetEnCurso
     ELSE /\ pc' = "borrar_del"
          /\ loc' = [op |-> "borrar_conexion", id_conexion |-> id_conexion,
                     eliminar |-> "no"]
          /\ ret' = RetEnCurso
          /\ UNCHANGED conexion_flujos
  /\ UNCHANGED <<alumnos, servidores, claves, cursos, conexiones>>

\* borrar_conexion giving up when eliminar_flujos returned False
borrar_conexion_del_si_elimino ==
  /\ pc = "borrar_del"
  /\ conexiones' = IF loc.eliminar = "False" THEN conexiones
                   ELSE Del(conexiones, loc.id_conexion)
  /\ pc' = "idle" /\ loc' = NoLoc
  /\ ret' = [op |-> "borrar_conexion", id_conexion |-> loc.id_conexion,
             result |-> (loc.eliminar # "False"), eliminar |-> loc.eliminar]
  /\ UNCHANGED <<alumnos, servidores, claves, cursos, conexion_flujos>>

\* lines 843-847: the registry entry is deleted
borrar_conexion_del ==
  /\ pc = "borrar_del"
  /\ conexiones' = Del(conexiones, loc.id_conexion)
  /\ pc' = "idle" /\ loc' = NoLoc
  /\ ret' = [op |-> "borrar_conexion", id_conexion |-> loc.id_conexion,
             result |-> TRUE, eliminar |-> loc.eliminar]
  /\ UNCHANGED <<alumnos, servidores, claves, cursos, conexion_flujos>>

Fallas ==
  {SinFalla, TrasRegistrar} \cup ((1..MaxRuta) \X (1..4))

FallasEliminar ==
  {SinFallaEliminar, "bucle", "resumen"}

Next ==
  \/ \E datos \in Documentos : importar_archivo(datos)
  \/ crear_alumno("Eva", cod103, mac103)
  \/ \E c \in CodigosCurso, a \in CodigosActualizar, acc \in Acciones :
       actualizar_curso(c, a, acc)
  \/ \E p \in Peticiones, id \in IDs : crear_conexion(p[1], p[2], p[3], id)
  \/ \E ra \in RespuestasDevice, rs \in RespuestasDevice, rr \in RespuestasRuta :
       crear_conexion_topologia(ra, rs, rr)
  \/ \E resp \in RespuestasDevice, falla \in Fallas : crear_conexion_build(resp, falla)
  \/ \E id \in IDs, falla \in FallasEliminar : borrar_conexion(id, falla)
  \/ borrar_conexion_del

Spec ==
  Init /\ [][Next]_vars

-----------------------------------------------------------------------------
(* Paths of any shape: the controller is free to answer a route query with  *)
(* any list of hops, a switch or a port may repeat                          *)

HopsPosibles ==
  { [switch |-> DPID(s), port |-> p] : s \in 1..2, p \in 2..3 }

RutasArbitrarias ==
  { [status |-> 200, path |-> h] :
      h \in UNION { [1..n -> HopsPosibles] : n \in 1..MaxHops } }

NextRutas ==
  \/ importar_archivo(DocA)
  \/ \E id \in IDs : crear_conexion(cod101, "S1", svc_http, id)
  \/ \E rr \in RutasArbitrarias : crear_conexion_topologia(RespError, RespError, rr)
  \/ crear_conexion_build(RespError, SinFalla)
  \/ \E id \in IDs : borrar_conexion(id, SinFallaEliminar)
  \/ borrar_conexion_del

SpecRutas ==
  Init /\ [][NextRutas]_vars

-----------------------------------------------------------------------------
(* Letter case of service names: documents and requests that write the     *)
(* same service in different cases                                          *)

svc_SSH ==
  <<"S","S","H">>

CasosHttp ==
  {svc_HTTP, svc_Http, svc_http}

\* S1 exposes ns and ssh; TEL1 (being taught) grants ng on S1 to alumno 101;
\* TEL2 (not being taught) grants ssh on S1
DocCaso(ns, ng) ==
  [ruta_archivo |-> "c.yaml", legible |-> TRUE,
   servidores |->
     << [nombre |-> "S1", ip |-> "10.0.0.3",
         servicios |-> << [nombre |-> ns, protocolo |-> PyStr(<<"t","c","p">>), puerto |-> 80],
                          [nombre |-> svc_ssh, protocolo |-> PyStr(<<"T","C","P">>), puerto |-> 22] >>] >>,
   alumnos |-> << [nombre |-> "Ana", codigo |-> cod101, mac |-> mac101] >>,
   cursos |->
     << [codigo |-> "TEL1", nombre |-> "SDN", estado |-> "DICTANDO",
         alumnos |-> <<cod101>>,
         servidores |-> << [nombre |-> "S1", servicios_permitidos |-> <<ng>>] >>],
        [codigo |-> "TEL2", nombre |-> "Redes", estado |-> "INACTIVO",
         alumnos |-> <<cod101>>,
         servidores |-> << [nombre |-> "S1", servicios_permitidos |-> <<svc_ssh>>] >>] >>]

DocumentosCaso ==
  { DocCaso(ns, ng) : ns \in CasosHttp, ng \in CasosHttp }

PeticionesCaso ==
  { <<cod101, s, n>> : s \in {"S1", "s1"}, n \in CasosHttp \cup {svc_ssh, svc_SSH} }

NextCaso ==
  \/ \E datos \in DocumentosCaso : importar_archivo(datos)
  \/ \E p \in PeticionesCaso, id \in IDs : crear_conexion(p[1], p[2], p[3], id)
  \/ crear_conexion_topologia(RespError, RespError, RespError)
  \/ crear_conexion_build(RespError, SinFalla)
  \/ \E id \in IDs : borrar_conexion(id, SinFallaEliminar)
  \/ borrar_conexion_del

SpecCaso ==
  Init /\ [][NextCaso]_vars

-----------------------------------------------------------------------------
(* Withdrawal of an authorization: the catalog is reloaded from a document  *)
(* whose course is no longer being taught, or the alumno leaves the course  *)

\* the document of DocA after TEL1 has ended
DocFinalizado ==
  [ruta_archivo |-> "b.yaml", legible |-> TRUE, servidores |-> DocServidores,
   alumnos |-> DocAlumnos, cursos |-> DocCursos("FINALIZADO", "INACTIVO")]

\* the document of DocA without alumno 101
DocSinAna ==
  [ruta_archivo |-> "d.yaml", legible |-> TRUE, servidores |-> DocServidores,
   alumnos |-> SubSeq(DocAlumnos, 2, 2), cursos |-> DocCursos("DICTANDO", "INACTIVO")]

NextRetiro ==
  \/ \E datos \in {DocA, DocFinalizado, DocSinAna} : importar_archivo(datos)
  \/ \E acc \in {acc_agregar, acc_eliminar} : actualizar_curso("TEL1", cod101, acc)
  \/ \E id \in IDs : crear_conexion(cod101, "S1", svc_http, id)
  \/ \E rr \in RespuestasRuta : crear_conexion_topologia(RespError, RespError, rr)
  \/ crear_conexion_build(RespError, SinFalla)
  \/ \E id \in IDs : borrar_conexion(id, SinFallaEliminar)
  \/ borrar_conexion_del

SpecRetiro ==
  Init /\ [][NextRetiro]_vars

-----------------------------------------------------------------------------
(* Export and import: documents with codes written as numbers, a grant for *)
(* a server the document does not list, and the file of the last export    *)
(* read back.                                                              *)

cod105 ==
  PyInt(105)

\* codigo: 105 and alumnos: [105, 105] written without quotes; TEL3 grants a
\* server S9 that the servidores collection does not have
DocNumerico ==
  [ruta_archivo |-> "n.yaml", legible |-> TRUE, servidores |-> DocServidores,
   alumnos |-> << [nombre |-> "Iris", codigo |-> cod105, mac |-> mac103] >>,
   cursos |-> << [codigo |-> "TEL3", nombre |-> "IoT", estado |-> "DICTANDO",
                  alumnos |-> <<cod105, cod105>>,
                  servidores |-> << [nombre |-> "S1", servicios_permitidos |-> <<svc_http>>],
                                    [nombre |-> "S9", servicios_permitidos |-> <<svc_ssh>>] >>] >>]

\* a document that is already what an export writes
DocLimpio ==
  [ruta_archivo |-> "l.yaml", legible |-> TRUE, servidores |-> DocServidores,
   alumnos |-> DocAlumnos,
   cursos |-> << [codigo |-> "TEL1", nombre |-> "SDN", estado |-> "DICTANDO",
                  alumnos |-> <<cod101>>,
                  servidores |-> << [nombre |-> "S1", servicios_permitidos |-> <<svc_http>>] >>] >>]

\* TEL5 has no estado, TEL6 has a grant without servicios_permitidos; TEL1
\* before them and TEL7 after them are complete
DocCursoIncompleto ==
  [ruta_archivo |-> "m.yaml", legible |-> TRUE, servidores |-> DocServidores,
   alumnos |-> DocAlumnos,
   cursos |-> << [codigo |-> "TEL1", nombre |-> "SDN", estado |-> "DICTANDO",
                  alumnos |-> <<cod101>>,
                  servidores |-> << [nombre |-> "S1", servicios_permitidos |-> <<svc_http>>] >>],
                 [codigo |-> "TEL5", nombre |-> "Voz",
                  alumnos |-> <<cod101, cod102>>,
                  servidores |-> << [nombre |-> "S1", servicios_permitidos |-> <<svc_ssh>>] >>],
                 [codigo |-> "TEL6", nombre |-> "Video", estado |-> "DICTANDO",
                  alumnos |-> <<cod102>>,
                  servidores |-> << [nombre |-> "S1", servicios_permitidos |-> <<svc_http>>],
                                    [nombre |-> "S2"] >>],
                 [codigo |-> "TEL7", nombre |-> "Datos", estado |-> "INACTIVO",
                  alumnos |-> <<cod102>>,
                  servidores |-> << [nombre |-> "S2", servicios_permitidos |-> <<svc_dns>>] >>] >>]

DocumentosExport ==
  {DocA, DocNumerico, DocLimpio, DocCursoIncompleto}

RutaExport ==
  "e.yaml"

\* the file left by the last successful exportar_archivo
ArchivoExportado ==
  [ruta_archivo |-> ret.ruta_archivo, legible |-> TRUE,
   alumnos |-> ret.datos.alumnos, servidores |-> ret.datos.servidores,
   cursos |-> ret.datos.cursos]

NextExport ==
  \/ \E datos \in DocumentosExport : importar_archivo(datos)
  \/ crear_alumno("Eva", cod103, mac103)
  \/ \E c \in {"TEL1", "TEL3"}, a \in {cod102, cod103, cod105}, acc \in Acciones :
       actualizar_curso(c, a, acc)
  \/ \E escribible \in BOOLEAN : exportar_archivo(RutaExport, escribible)
  \/ (ret.op = "exportar_archivo" /\ ret.result /\ importar_archivo(ArchivoExportado))

SpecExport ==
  Init /\ [][NextExport]_vars

-----------------------------------------------------------------------------
(* The topology client called on its own: get_route and                    *)
(* get_attachment_point with the answers of the controller drawn from      *)
(* small sets.  ret keeps the arguments, the answer and the result.        *)

\* a 200 answer with a hop that has no 'port'
RespRutaMalFormada ==
  [status |-> 200, path |-> << [switch |-> DPID(1)] >>]

RespuestasRutaTodas ==
  RespuestasRuta \cup {RespRutaMalFormada}

DPIDsConsulta ==
  {DPID(1), DPID(2)}

PuertosOrigen ==
  {1, 2}

PuertosDestino ==
  {1, 2, 3}

\* the address of alumno 101 in lower case with ':' separators
mac101_minusculas ==
  PyStr(<<"f","a",":","1","6",":","3","e",":","f","4",":","1","f",":","1","1">>)

\* the first octets of an address only
mac_parcial ==
  PyStr(<<"f","a",":","1","6">>)

\* an empty address
mac_vacia ==
  PyStr(<<>>)

MacsConsulta ==
  {mac101, mac101_minusculas, mac102, mac103, mac_parcial, mac_vacia}

\* the controller lists no device
RespSinDispositivos ==
  [status |-> 200, devices |-> <<>>]

RespuestasDeviceTodas ==
  RespuestasDevice \cup {RespSinDispositivos}

llamar_get_route(src_dpid, src_port, dst_dpid, dst_port, resp) ==
  /\ pc = "idle"
  /\ ret' = [op |-> "get_route", src_dpid |-> src_dpid, src_port |-> src_port,
             dst_dpid |-> dst_dpid, dst_port |-> dst_port, resp |-> resp,
             result |-> get_route(src_dpid, src_port, dst_dpid, dst_port, resp)]
  /\ UNCHANGED <<alumnos, servidores, claves, cursos, conexiones, conexion_flujos, pc, loc>>

llamar_get_attachment_point(mac, resp) ==
  /\ pc = "idle"
  /\ ret' = [op |-> "get_attachment_point", mac |-> mac, resp |-> resp,
             result |-> get_attachment_point(mac, resp)]
  /\ UNCHANGED <<alumnos, servidores, claves, cursos, conexiones, conexion_flujos, pc, loc>>

NextTopologia ==
  \/ \E s \in DPIDsConsulta, sp \in PuertosOrigen, d \in DPIDsConsulta,
        dp \in PuertosDestino, resp \in RespuestasRutaTodas :
       llamar_get_route(s, sp, d, dp, resp)
  \/ \E mac \in MacsConsulta, resp \in RespuestasDeviceTodas :
       llamar_get_attachment_point(mac, resp)

SpecTopologia ==
  Init /\ [][NextTopologia]_vars

-----------------------------------------------------------------------------
(* build_route called on its own with a path, a connection and the answer  *)
(* of the controller to its attachment-point query                          *)

CatalogoA ==
  importar([alumnos |-> EmptyMap, servidores |-> EmptyMap,
            claves |-> [alumnos |-> <<>>, servidores |-> <<>>], cursos |-> <<>>],
           DocA).cat

\* alumno 101 to HTTP (tcp) and to ssh (TCP) on S1, alumno 101 to dns on S2
\* (protocolo None), and alumno 102 (address loaded as an int) to HTTP on S1
ConexionesBuild ==
  { Conexion("a1b2c3d1", CatalogoA.alumnos[cod101], CatalogoA.servidores["S1"],
             CatalogoA.servidores["S1"].servicios[1]),
    Conexion("a1b2c3d1", CatalogoA.alumnos[cod101], CatalogoA.servidores["S1"],
             CatalogoA.servidores["S1"].servicios[2]),
    Conexion("a1b2c3d1", CatalogoA.alumnos[cod101], CatalogoA.servidores["S2"],
             CatalogoA.servidores["S2"].servicios[1]),
    Conexion("a1b2c3d1", CatalogoA.alumnos[cod102], CatalogoA.servidores["S1"],
             CatalogoA.servidores["S1"].servicios[1]) }

\* the controller knows alumno 101 on port 4, which the static table does not say
DevicesC ==
  << [mac |-> << <<"f","a",":","1","6",":","3","e",":","f","4",":","1","f",":","1","1">> >>,
      attachmentPoint |-> << [switchDPID |-> DPID(1), port |-> 4] >>] >>

RespuestasDeviceBuild ==
  RespuestasDevice \cup {[status |-> 200, devices |-> DevicesC]}

\* the paths build_route is given: prefixes of the controller path, the
\* fallback paths, a path through one switch twice
RutasBuild ==
  { [k \in 1..n |-> <<DPID(k), k + 1>>] : n \in 0..MaxHops }
    \cup { << <<DPID(1), 3>> >>, << <<DPID(1), 1>>, <<DPID(2), 3>> >>,
           << <<DPID(1), 5>>, <<DPID(1), 2>> >> }

\* build_route(ruta, conexion) called on its own
llamar_build_route(ruta, conexion, resp, falla) ==
  /\ pc = "idle"
  /\ falla[1] <= Len(ruta)
  /\ LET r == build_route(conexion_flujos, ruta, conexion, resp, falla)
     IN /\ conexion_flujos' = r.flujos
        /\ ret' = [op |-> "build_route", ruta |-> ruta, conexion |-> conexion,
                   resp |-> resp, falla |-> falla, result |-> r.ok]
  /\ UNCHANGED <<alumnos, servidores, claves, cursos, conexiones, pc, loc>>

\* eliminar_flujos(id_conexion) called on its own
llamar_eliminar_flujos(id_conexion, falla) ==
  /\ pc = "idle"
  /\ LET r == eliminar_flujos(conexion_flujos, id_conexion, falla)
     IN /\ conexion_flujos' = r.flujos
        /\ ret' = [op |-> "eliminar_flujos", id_conexion |-> id_conexion,
                   falla |-> falla, result |-> r.ok]
  /\ UNCHANGED <<alumnos, servidores, claves, cursos, conexiones, pc, loc>>

NextFlujos ==
  \/ \E ruta \in RutasBuild, conexion \in ConexionesBuild, resp \in RespuestasDeviceBuild,
        falla \in {SinFalla, TrasRegistrar} :
       llamar_build_route(ruta, conexion, resp, falla)
  \/ \E id \in IDs, falla \in FallasEliminar : llamar_eliminar_flujos(id, falla)

SpecFlujos ==
  Init /\ [][NextFlujos]_vars

-----------------------------------------------------------------------------
(* Several courses being taught that authorize the same request             *)

DocDosCursos ==
  [ruta_archivo |-> "d2.yaml", legible |-> TRUE, servidores |-> DocServidores,
   alumnos |-> DocAlumnos, cursos |-> DocCursos("DICTANDO", "DICTANDO")]

\* the same two courses listed in the other order
DocDosCursosInv ==
  [ruta_archivo |-> "d3.yaml", legible |-> TRUE, servidores |-> DocServidores,
   alumnos |-> DocAlumnos,
   cursos |-> << DocCursos("DICTANDO", "DICTANDO")[2], DocCursos("DICTANDO", "DICTANDO")[1] >>]

\* the first of the two is not being taught
DocSegundoCurso ==
  [ruta_archivo |-> "d4.yaml", legible |-> TRUE, servidores |-> DocServidores,
   alumnos |-> DocAlumnos, cursos |-> DocCursos("INACTIVO", "DICTANDO")]

NextCursos ==
  \/ \E datos \in {DocDosCursos, DocDosCursosInv, DocSegundoCurso} : importar_archivo(datos)
  \/ \E c \in {"TEL1", "TEL2"}, acc \in {acc_agregar, acc_eliminar} :
       actualizar_curso(c, cod101, acc)
  \/ \E svc \in {svc_http, svc_ssh}, id \in IDs : crear_conexion(cod101, "S1", svc, id)
  \/ \E rr \in RespuestasRuta : crear_conexion_topologia(RespError, RespError, rr)
  \/ crear_conexion_build(RespError, SinFalla)
  \/ \E id \in IDs : borrar_conexion(id, SinFallaEliminar)
  \/ borrar_conexion_del

SpecCursos ==
  Init /\ [][NextCursos]_vars

-----------------------------------------------------------------------------
(* Documents that importar_archivo rejects: a file that cannot be read, a   *)
(* server record without ip, an alumno record without mac                  *)

\* S1 is complete, the record of S2 has no ip
DocServidorInvalido ==
  [ruta_archivo |-> "s.yaml", legible |-> TRUE,
   servidores |-> << DocServidores[1],
                     [nombre |-> "S2",
                      servicios |-> << [nombre |-> svc_dns, protocolo |-> PyNone, puerto |-> 53] >>] >>,
   alumnos |-> DocAlumnos, cursos |-> DocCursos("DICTANDO", "INACTIVO")]

\* the record of alumno 101 is complete, the record of alumno 102 has no mac
DocAlumnoInvalido ==
  [ruta_archivo |-> "u.yaml", legible |-> TRUE, servidores |-> DocServidores,
   alumnos |-> << DocAlumnos[1], [nombre |-> "Luis", codigo |-> cod102] >>,
   cursos |-> DocCursos("DICTANDO", "INACTIVO")]

DocumentosRechazo ==
  {DocA, DocFinalizado, DocIlegible, DocServidorInvalido, DocAlumnoInvalido}

NextRechazo ==
  \/ \E datos \in DocumentosRechazo : importar_archivo(datos)
  \/ crear_alumno("Eva", cod103, mac103)
  \/ \E c \in CodigosCurso, a \in CodigosActualizar, acc \in Acciones :
       actualizar_curso(c, a, acc)

SpecRechazo ==
  Init /\ [][NextRechazo]_vars

-----------------------------------------------------------------------------
(* Two connections of the same alumno to the same service of the same      *)
(* server, alive at the same time                                          *)

\* two values of str(uuid.uuid4())[:8]
IDsPar ==
  {"a1b2c3d1", "a1b2c3d2"}

NextPar ==
  \/ importar_archivo(DocA)
  \/ \E id \in IDsPar : crear_conexion(cod101, "S1", svc_http, id)
  \/ \E rr \in RespuestasRuta : crear_conexion_topologia(RespError, RespError, rr)
  \/ \E falla \in {SinFalla, TrasRegistrar, <<1, 3>>} : crear_conexion_build(RespError, falla)
  \/ \E id \in IDsPar, falla \in FallasEliminar : borrar_conexion(id, falla)
  \/ borrar_conexion_del
  \/ \E id \in IDsPar, falla \in FallasEliminar : llamar_eliminar_flujos(id, falla)

SpecPar ==
  Init /\ [][NextPar]_vars

-----------------------------------------------------------------------------
(* Progress.  The steps of crear_conexion after the registration wait for   *)
(* the controller: requests.get is called without a timeout (lines 441,    *)
(* 515), so a call stays at "topologia" or "build" for as long as a request *)
(* is not answered, and nothing in the program bounds that wait.  The last *)
(* step of borrar_conexion sends no request: it is the next statement of a  *)
(* sequential method and is always executed.                               *)

\* the controller requests of a crear_conexion in progress return and the
\* call goes on
Continuar ==
  \/ \E ra \in RespuestasDevice, rs \in RespuestasDevice, rr \in RespuestasRuta :
       crear_conexion_topologia(ra, rs, rr)
  \/ \E resp \in RespuestasDevice, falla \in Fallas : crear_conexion_build(resp, falla)

SpecVivo ==
  Init /\ [][Next]_vars /\ WF_vars(borrar_conexion_del)

-----------------------------------------------------------------------------
(* Properties *)

\* some course being taught has the alumno among its members and a grant for
\* the server whose permitted services include the service name (names of
\* services compared without regard to case)
Cubierto(codigo_alumno, nombre_servidor, nombre_servicio) ==
  \E k \in 1..Len(cursos) :
    /\ cursos[k].estado = "DICTANDO"
    /\ \E j \in 1..Len(cursos[k].alumnos) : cursos[k].alumnos[j] = codigo_alumno
    /\ \E g \in 1..Len(cursos[k].servidores) :
         /\ cursos[k].servidores[g].srv.nombre = nombre_servidor
         /\ \E q \in 1..Len(cursos[k].servidores[g].servicios_permitidos) :
              lower(cursos[k].servidores[g].servicios_permitidos[q])
                = lower(nombre_servicio)

\* C1: a crear_conexion request for a triple that no course being taught
\* covers returns False and leaves conexiones as it was: the call goes past
\* the authorization scan only for a covered triple, and a call that ends
\* before that returns False without touching conexiones.
C1_NoCubiertoDenegado ==
  [][/\ (pc = "idle" /\ pc' = "topologia")
          => Cubierto(loc'.codigo_alumno, loc'.nombre_servidor, loc'.nombre_servicio)
     /\ (pc = "idle" /\ pc' = "idle" /\ ret'.op = "crear_conexion")
          => (ret'.result = "False" /\ conexiones' = conexiones)]_vars

\* a known alumno asked for a service the server exposes and was turned down
\* by the authorization scan
C1_Witness ==
  /\ ret.op = "crear_conexion"
  /\ ret.etapa = "autorizacion" /\ ret.result = "False"
  /\ ~ Cubierto(ret.codigo_alumno, ret.nombre_servidor, ret.nombre_servicio)

\* C2: when the request reaches the authorization scan (known alumno, known
\* server, exposed service) and some course being taught covers the triple,
\* the scan approves: it turns down only triples that no course being taught
\* covers, and the curso_autorizador of an approved request is being taught.
C2_CubiertoAprobado ==
  [][/\ (pc = "idle" /\ pc' = "idle" /\ ret'.op = "crear_conexion"
           /\ ret'.etapa = "autorizacion")
          => ~ Cubierto(ret'.codigo_alumno, ret'.nombre_servidor, ret'.nombre_servicio)
     /\ (pc = "idle" /\ pc' = "topologia")
          => /\ loc'.conexion.id \in DOMAIN conexiones'
             /\ \E k \in 1..Len(cursos) :
                  cursos[k].codigo = loc'.curso /\ cursos[k].estado = "DICTANDO"]_vars

\* an approved request whose service name differs in case from the name the
\* server gives the service
C2_Witness ==
  /\ pc = "topologia"
  /\ Cubierto(loc.codigo_alumno, loc.nombre_servidor, loc.nombre_servicio)
  /\ loc.nombre_servicio # loc.conexion.servicio.nombre

\* C3: once crear_conexion has ended (returned or raised), every connection in
\* conexiones has a non-empty route and four recorded flows per hop.
C3_RegistroSinConexionesAMedias ==
  pc = "idle" =>
    \A id \in DOMAIN conexiones :
      /\ conexiones[id].ruta # <<>>
      /\ id \in DOMAIN conexion_flujos
      /\ Len(conexion_flujos[id]) = 4 * Len(conexiones[id].ruta)

\* C4: in every state, steps inside crear_conexion included, an id is in
\* conexiones only if its flows have been installed and recorded.
C4_RegistradaSoloTrasInstalar ==
  \A id \in DOMAIN conexiones : id \in DOMAIN conexion_flujos

\* C5: between calls, when no aborted call has left a connection without
\* route behind, conexiones and conexion_flujos have the same ids.
C5_TablasALaPar ==
  (pc = "idle" /\ \A id \in DOMAIN conexiones : conexiones[id].ruta # <<>>)
    => DOMAIN conexiones = DOMAIN conexion_flujos

\* C6: when build_route fails at a hop of the path, whatever the hop and the
\* step, the attempt records nothing in conexion_flujos and the connection is
\* not in conexiones.
C6_FalloSinRastro ==
  [][(pc = "build" /\ pc' = "idle" /\ ret'.result = "False" /\ ret'.fallo_hop >= 1)
       => /\ conexion_flujos' = conexion_flujos
          /\ loc.conexion.id \notin DOMAIN conexiones']_vars

\* build_route failed at the second hop, after the four flows of the first
\* hop had been appended, and nothing of the connection is left
C6_Witness ==
  /\ ret.op = "crear_conexion"
  /\ ret.etapa = "build" /\ ret.fallo_hop = 2
  /\ ret.id \notin DOMAIN conexiones
  /\ ret.id \notin DOMAIN conexion_flujos

\* C7: after borrar_conexion returned True the id is in neither table.
C7_BorradoEnAmbasTablas ==
  (ret.op = "borrar_conexion" /\ ret.result = TRUE)
    => /\ ret.id_conexion \notin DOMAIN conexiones
       /\ ret.id_conexion \notin DOMAIN conexion_flujos

\* C8: borrar_conexion returns at once only for an id that is not registered;
\* for a registered id it ends by deleting the registry entry and returning
\* True, whatever eliminar_flujos returned.
C8_BorrarRegistradaDevuelveTrue ==
  [][/\ (pc = "idle" /\ pc' = "idle" /\ ret'.op = "borrar_conexion")
          => ret'.id_conexion \notin DOMAIN conexiones
     /\ (pc = "borrar_del" /\ pc' = "idle")
          => /\ loc.id_conexion \in DOMAIN conexiones
             /\ loc.id_conexion \notin DOMAIN conexiones'
             /\ ret'.op = "borrar_conexion" /\ ret'.result = TRUE]_vars

\* eliminar_flujos returned False and the connection is gone all the same
C8_Witness ==
  /\ ret.op = "borrar_conexion"
  /\ ret.result = TRUE /\ ret.eliminar = "False"
  /\ ret.id_conexion \notin DOMAIN conexiones

\* C9: after a successful crear_conexion the connection has exactly four
\* recorded flows per hop, and after borrar_conexion of a connection with
\* recorded flows none of them is recorded any more.
C9_CuatroPorHopYNingunoTrasBorrar ==
  /\ (ret.op = "crear_conexion" /\ ret.result = "True")
       => Len(conexion_flujos[ret.id]) = 4 * Len(conexiones[ret.id].ruta)
  /\ (ret.op = "borrar_conexion" /\ ret.eliminar # "no")
       => ret.id_conexion \notin DOMAIN conexion_flujos

\* C10: every element recorded in conexion_flujos is a rule name (a str).
C10_SoloNombresRegistrados ==
  \A id \in DOMAIN conexion_flujos :
    \A k \in 1..Len(conexion_flujos[id]) : conexion_flujos[id][k].t = "str"

\* the name of a recorded flow: the str itself, or the "name" of the rule
NombreRegistrado(e) ==
  IF e.t = "str" THEN e.nombre ELSE e.flujo.name

\* C11: the rules build_route derives for one connection (four per hop of its
\* path, whatever path the controller answered) all have different names, and
\* rules of different connections have different names.
C11_NombresSinColision ==
  /\ \A id \in DOMAIN conexion_flujos :
       \A i, j \in 1..Len(conexion_flujos[id]) :
         i # j => NombreRegistrado(conexion_flujos[id][i])
                    # NombreRegistrado(conexion_flujos[id][j])
  /\ \A id1, id2 \in DOMAIN conexion_flujos :
       id1 # id2 =>
         \A i \in 1..Len(conexion_flujos[id1]), j \in 1..Len(conexion_flujos[id2]) :
           NombreRegistrado(conexion_flujos[id1][i])
             # NombreRegistrado(conexion_flujos[id2][j])

\* C12: a crear_conexion call that returns False leaves conexiones,
\* conexion_flujos and the catalog as they were when the call began: a call
\* turned down before registration changes nothing, no step of a call changes
\* the catalog, only the last step of a call changes conexion_flujos, and a
\* call that fails after registration leaves conexiones as it found it.
C12_FalsoSinEfectos ==
  [][/\ (pc = "idle" /\ pc' = "idle" /\ ret'.op = "crear_conexion")
          => UNCHANGED <<alumnos, servidores, claves, cursos, conexiones, conexion_flujos>>
     /\ (pc = "idle" /\ pc' = "topologia")
          => UNCHANGED <<alumnos, servidores, claves, cursos, conexion_flujos>>
     /\ (pc = "topologia" /\ pc' = "build")
          => UNCHANGED <<alumnos, servidores, claves, cursos, conexion_flujos>>
     /\ (pc \in {"topologia", "build"} /\ pc' = "idle" /\ ret'.result = "False")
          => /\ UNCHANGED <<alumnos, servidores, claves, cursos, conexion_flujos>>
             /\ conexiones' = loc.antes]_vars

\* the server is in the catalog and exposes a service of that name
Expone(nombre_servidor, nombre_servicio) ==
  /\ nombre_servidor \in DOMAIN servidores
  /\ \E k \in 1..Len(servidores[nombre_servidor].servicios) :
       lower(servidores[nombre_servidor].servicios[k].nombre) = lower(nombre_servicio)

\* C13: crear_conexion registers a connection only for an alumno of the
\* catalog, a server of the catalog and a service that server exposes; a call
\* that ends before registration returns False and changes neither table,
\* whatever the courses list.
C13_DesconocidoDenegado ==
  [][/\ (pc = "idle" /\ pc' = "topologia")
          => /\ loc'.codigo_alumno \in DOMAIN alumnos
             /\ Expone(loc'.nombre_servidor, loc'.nombre_servicio)
     /\ (pc = "idle" /\ pc' = "idle" /\ ret'.op = "crear_conexion")
          => /\ ret'.result = "False"
             /\ UNCHANGED <<conexiones, conexion_flujos>>]_vars

\* a request turned down for its unknown alumno code although a course being
\* taught lists the code as member and grants the service
C13_Witness ==
  /\ ret.op = "crear_conexion"
  /\ ret.result = "False"
  /\ ret.codigo_alumno \notin DOMAIN alumnos
  /\ Cubierto(ret.codigo_alumno, ret.nombre_servidor, ret.nombre_servicio)

\* a name rewritten in lower case, in upper case, or left alone
Caso(f, chars) ==
  IF f = "lower" THEN lower(chars) ELSE IF f = "upper" THEN upper(chars) ELSE chars

Casos ==
  {"lower", "upper", "igual"}

\* a server with its service names rewritten
ServidorCaso(f, servidor) ==
  [servidor EXCEPT !.servicios =
     [k \in 1..Len(servidor.servicios) |->
        [servidor.servicios[k] EXCEPT !.nombre = Caso(f, @)]]]

\* the courses with the service names of the servers rewritten by fs and the
\* names of the permitted-service lists rewritten by fg
CursosCaso(fs, fg, cs) ==
  [k \in 1..Len(cs) |->
     [cs[k] EXCEPT !.servidores =
        [g \in 1..Len(cs[k].servidores) |->
           [srv |-> ServidorCaso(fs, cs[k].servidores[g].srv),
            servicios_permitidos |->
              [q \in 1..Len(cs[k].servidores[g].servicios_permitidos) |->
                 Caso(fg, cs[k].servidores[g].servicios_permitidos[q])]]]]]

\* where the lookups and the scan of crear_conexion (lines 721-766) end for a
\* request on a catalog: the step that turns it down, or "ok"
Veredicto(als, srvs, cs, codigo_alumno, nombre_servidor, nombre_servicio) ==
  IF codigo_alumno \notin DOMAIN als THEN "alumno"
  ELSE IF nombre_servidor \notin DOMAIN srvs THEN "servidor"
  ELSE LET servidor == srvs[nombre_servidor]
           k == buscar_servicio(servidor, nombre_servicio)
       IN IF k = 0 THEN "servicio"
          ELSE IF autorizar(cs, codigo_alumno, servidor, servidor.servicios[k]) = 0
          THEN "autorizacion"
          ELSE "ok"

\* the verdict on a request is the same after any rewriting of the case of
\* the requested service name, of the servers' service names and of the
\* names in the grants
VeredictoSinCaso(codigo_alumno, nombre_servidor, nombre_servicio) ==
  \A fn \in Casos, fs \in Casos, fg \in Casos :
    Veredicto(alumnos,
              [x \in DOMAIN servidores |-> ServidorCaso(fs, servidores[x])],
              CursosCaso(fs, fg, cursos),
              codigo_alumno, nombre_servidor, Caso(fn, nombre_servicio))
      = Veredicto(alumnos, servidores, cursos,
                  codigo_alumno, nombre_servidor, nombre_servicio)

\* C14: the outcome of the lookups and the authorization scan of a
\* crear_conexion call does not change when the case of the requested service
\* name, of the server's service names or of the granted names is altered; a
\* server name is looked up as written, so a name that is no key of
\* servidores is an unknown server.
C14_CasoDeNombres ==
  [][/\ (pc = "idle" /\ pc' = "topologia")
          => /\ Veredicto(alumnos, servidores, cursos, loc'.codigo_alumno,
                          loc'.nombre_servidor, loc'.nombre_servicio) = "ok"
             /\ VeredictoSinCaso(loc'.codigo_alumno, loc'.nombre_servidor,
                                 loc'.nombre_servicio)
     /\ (pc = "idle" /\ pc' = "idle" /\ ret'.op = "crear_conexion")
          => /\ ret'.result = "False"
             /\ Veredicto(alumnos, servidores, cursos, ret'.codigo_alumno,
                          ret'.nombre_servidor, ret'.nombre_servicio) = ret'.etapa
             /\ VeredictoSinCaso(ret'.codigo_alumno, ret'.nombre_servidor,
                                 ret'.nombre_servicio)
             /\ (ret'.nombre_servidor \notin DOMAIN servidores
                   => ret'.etapa \in {"alumno", "servidor"})]_vars

\* a request approved although the requested name, the name the server gives
\* the service and the granted name are written in three different ways
C14_Witness ==
  /\ pc = "topologia"
  /\ loc.nombre_servicio # loc.conexion.servicio.nombre
  /\ \E k \in 1..Len(cursos) :
       /\ cursos[k].codigo = loc.curso
       /\ \A g \in 1..Len(cursos[k].servidores) :
            /\ ~ InList(loc.nombre_servicio, cursos[k].servidores[g].servicios_permitidos)
            /\ ~ InList(loc.conexion.servicio.nombre,
                        cursos[k].servidores[g].servicios_permitidos)

\* the connection is installed: registered with a route and its flows recorded
Instalada(id) ==
  /\ id \in DOMAIN conexiones
  /\ id \in DOMAIN conexion_flujos
  /\ conexiones[id].ruta # <<>>

\* C15: reloading the catalog and changing the members of a course leave
\* conexiones and conexion_flujos as they are, and a crear_conexion request
\* for a triple that no course being taught covers any more is turned down
\* without touching them: an installed connection outlives the withdrawal of
\* its authorization.
C15_RetiroNoAfectaInstaladas ==
  [][/\ (pc = "idle" /\ ret'.op \in {"importar_archivo", "actualizar_curso"})
          => UNCHANGED <<conexiones, conexion_flujos>>
     /\ (pc = "idle" /\ pc' = "idle" /\ ret'.op = "crear_conexion"
           /\ ~ Cubierto(ret'.codigo_alumno, ret'.nombre_servidor, ret'.nombre_servicio))
          => /\ ret'.result = "False"
             /\ UNCHANGED <<conexiones, conexion_flujos>>
     /\ (pc = "idle" /\ pc' = "topologia")
          => Cubierto(loc'.codigo_alumno, loc'.nombre_servidor, loc'.nombre_servicio)]_vars

\* a request has just been turned down by the authorization scan while a
\* connection installed for the same alumno, server and service is still there
C15_Witness ==
  /\ ret.op = "crear_conexion"
  /\ ret.etapa = "autorizacion" /\ ret.result = "False"
  /\ \E id \in DOMAIN conexiones :
       /\ Instalada(id)
       /\ conexiones[id].alumno.codigo = ret.codigo_alumno
       /\ conexiones[id].servidor.nombre = ret.nombre_servidor
       /\ lower(conexiones[id].servicio.nombre) = lower(ret.nombre_servicio)

\* C16: after importar_archivo has reloaded the catalog, every connection in
\* the registry refers to an alumno and a server that the catalog holds now.
C16_ConexionesTrasRecarga ==
  (pc = "idle" /\ ret.op = "importar_archivo" /\ ret.result = TRUE)
    => \A id \in DOMAIN conexiones :
         /\ conexiones[id].alumno.codigo \in DOMAIN alumnos
         /\ alumnos[conexiones[id].alumno.codigo] = conexiones[id].alumno
         /\ conexiones[id].servidor.nombre \in DOMAIN servidores
         /\ servidores[conexiones[id].servidor.nombre] = conexiones[id].servidor

\* no two positions of a list hold the same value
SinRepetidos(lista) ==
  \A i, j \in 1..Len(lista) : i # j => lista[i] # lista[j]

\* C17: no code appears twice in the member list of a course, whatever was
\* imported or added, and actualizar_curso 'agregar' for an alumno who is
\* already a member leaves the courses as they were.
C17_AgregarIdempotente ==
  [][/\ \A k \in 1..Len(cursos') : SinRepetidos(cursos'[k].alumnos)
     /\ (pc = "idle" /\ ret'.op = "actualizar_curso" /\ ret'.result
           /\ lower(ret'.accion) = lower(acc_agregar)
           /\ InList(ret'.codigo_alumno,
                     cursos[CursoIndex(cursos, ret'.codigo_curso)].alumnos))
          => cursos' = cursos]_vars

\* actualizar_curso 'agregar' returned True for an alumno who was already a
\* member, and the course lists the alumno once; another course was imported
\* from a member list that repeats a code
C17_Witness ==
  /\ ret.op = "actualizar_curso"
  /\ ret.result /\ ret.miembro_antes
  /\ lower(ret.accion) = lower(acc_agregar)
  /\ Cardinality({ j \in 1..Len(cursos[CursoIndex(cursos, ret.codigo_curso)].alumnos) :
                     cursos[CursoIndex(cursos, ret.codigo_curso)].alumnos[j]
                       = ret.codigo_alumno }) = 1
  /\ \E k \in 1..Len(cursos) : cursos[k].alumnos = <<cod101>>

\* the catalog with every list the comparison takes as a collection turned
\* into a set: users, servers with their services, courses with state,
\* member set and (server, permitted-services) grants
ServidorSinOrden(servidor) ==
  [nombre |-> servidor.nombre, ip |-> servidor.ip,
   servicios |-> {servidor.servicios[k] : k \in 1..Len(servidor.servicios)}]

CursoSinOrden(curso) ==
  [codigo |-> curso.codigo, nombre |-> curso.nombre, estado |-> curso.estado,
   alumnos |-> {curso.alumnos[k] : k \in 1..Len(curso.alumnos)},
   servidores |-> {[nombre |-> curso.servidores[k].srv.nombre,
                    servicios_permitidos |-> curso.servidores[k].servicios_permitidos]
                   : k \in 1..Len(curso.servidores)}]

CatalogoSinOrden(cat) ==
  [alumnos |-> {cat.alumnos[k] : k \in DOMAIN cat.alumnos},
   servidores |-> {ServidorSinOrden(cat.servidores[k]) : k \in DOMAIN cat.servidores},
   cursos |-> {CursoSinOrden(cat.cursos[k]) : k \in 1..Len(cat.cursos)}]

\* C18: exporting a catalog reached through importar_archivo, crear_alumno
\* and actualizar_curso and importing the exported file yields the same
\* users, servers with their services, and courses with the same state,
\* member set and grants, ignoring collection order.
C18_ExportarImportar ==
  [][(/\ ret.op = "exportar_archivo" /\ ret.result
      /\ ret'.op = "importar_archivo" /\ ret'.ruta_archivo = ret.ruta_archivo)
       => (ret'.result /\ CatalogoSinOrden(Catalogo') = CatalogoSinOrden(Catalogo))]_vars

\* a list as a collection without order: each value with the number of
\* times it occurs
Veces(lista) ==
  [x \in {lista[k] : k \in 1..Len(lista)} |->
     Cardinality({k \in 1..Len(lista) : lista[k] = x})]

\* a catalog document with its collections taken without order
DocumentoSinOrden(datos) ==
  [alumnos |-> Veces(datos.alumnos),
   servidores |-> Veces([k \in 1..Len(datos.servidores) |->
                    [nombre |-> datos.servidores[k].nombre,
                     ip |-> datos.servidores[k].ip,
                     servicios |-> Veces(datos.servidores[k].servicios)]]),
   cursos |-> Veces([k \in 1..Len(datos.cursos) |->
                [codigo |-> datos.cursos[k].codigo,
                 nombre |-> datos.cursos[k].nombre,
                 estado |-> datos.cursos[k].estado,
                 alumnos |-> Veces(datos.cursos[k].alumnos),
                 servidores |-> Veces(datos.cursos[k].servidores)]])]

\* the document stored under a path
Documento(ruta_archivo) ==
  CHOOSE d \in DocumentosExport : d.ruta_archivo = ruta_archivo

\* C19: importing a document that importar_archivo accepts and then
\* exporting writes the same document in all fields, up to the order of
\* collections, also when a grant names a server the document does not
\* list, a member list repeats an id, or a member id is not a trimmed str.
C19_ImportarExportar ==
  [][(/\ ret.op = "importar_archivo" /\ ret.result
      /\ \E d \in DocumentosExport : d.ruta_archivo = ret.ruta_archivo
      /\ ret'.op = "exportar_archivo" /\ ret'.result)
       => DocumentoSinOrden(ret'.datos)
            = DocumentoSinOrden(Documento(ret.ruta_archivo))]_vars

\* C20: in a crear_conexion call the topology queries (get_attachment_point,
\* get_route) and the flow installation (build_route) are reached only with
\* the authorization approved: the call is at those steps only for a triple
\* that its curso_autorizador, a course being taught, covers; and a request
\* that is denied leaves the connection registry as it was.
C20_AutorizacionPrimero ==
  [][/\ (pc' \in {"topologia", "build"})
          => /\ cursos' = cursos
             /\ Cubierto(loc'.codigo_alumno, loc'.nombre_servidor, loc'.nombre_servicio)
             /\ \E k \in 1..Len(cursos) :
                  /\ cursos[k].codigo = loc'.curso
                  /\ cursos[k].estado = "DICTANDO"
     /\ (pc = "idle" /\ pc' = "idle" /\ ret'.op = "crear_conexion")
          => /\ ret'.result = "False"
             /\ ret'.etapa \in {"alumno", "servidor", "servicio", "autorizacion"}
             /\ conexiones' = conexiones
             /\ conexion_flujos' = conexion_flujos]_vars

\* an approved call about to install flows: its triple is covered and the
\* registry holds the connection of this call only
C20_Witness ==
  /\ pc = "build"
  /\ Cubierto(loc.codigo_alumno, loc.nombre_servidor, loc.nombre_servicio)
  /\ DOMAIN conexiones = {loc.conexion.id}

\* the path query failed: a status other than 200, a request that raised, or
\* a 200 answer that cannot be read
ConsultaFallida(resp) ==
  resp.status # 200 \/ ~ RutaBienFormada(resp)

\* C21: when the path query fails, get_route returns one hop on the switch
\* when source and destination switch are the same, and otherwise two hops,
\* the first on the source switch and the second on the destination switch
\* with the destination port; the fallback path is never empty.
C21_RutaDeRespaldo ==
  (ret.op = "get_route" /\ ConsultaFallida(ret.resp))
    => /\ ret.result # <<>>
       /\ IF ret.src_dpid = ret.dst_dpid
          THEN /\ Len(ret.result) = 1
               /\ ret.result[1][1] = ret.src_dpid
          ELSE /\ Len(ret.result) = 2
               /\ ret.result[1][1] = ret.src_dpid
               /\ ret.result[2] = <<ret.dst_dpid, ret.dst_port>>

\* a 200 answer that could not be read, between two different switches
C21_Witness ==
  /\ ret.op = "get_route"
  /\ ret.resp.status = 200 /\ ~ RutaBienFormada(ret.resp)
  /\ ret.src_dpid # ret.dst_dpid
  /\ Len(ret.result) = 2

\* C22: the result of get_route tells a synthesized fallback path from a
\* path the controller answered: the result of a call the controller
\* answered is not the result of any call with the same arguments that the
\* controller failed.
C22_RespaldoDistinguible ==
  (ret.op = "get_route" /\ ~ ConsultaFallida(ret.resp))
    => \A resp \in RespuestasRutaTodas :
         ConsultaFallida(resp)
           => get_route(ret.src_dpid, ret.src_port, ret.dst_dpid, ret.dst_port, resp)
                # ret.result

\* the normalised address equals the normalised key of some mac_map entry
EnTabla(norm) ==
  \E k \in 1..Len(mac_map_norm) : mac_map_norm[k] = norm

\* the first mac_map entry whose normalised key equals the normalised address
FilaDe(norm) ==
  CHOOSE k \in 1..Len(mac_map_norm) :
    mac_map_norm[k] = norm /\ \A h \in 1..(k - 1) : mac_map_norm[h] # norm

\* the controller gives no match for the address
SinCoincidencia(resp, norm) ==
  resp.status # 200 \/ DeviceHit(resp.devices, norm, 1) = 0

\* C23: when the controller gives no match, get_attachment_point returns the
\* static-table entry whose normalised key equals the normalised address and
\* the fixed default attachment point for an address whose normalised form
\* equals no key; two addresses with the same normalised form get the same
\* result.
C23_TablaEstatica ==
  (/\ ret.op = "get_attachment_point" /\ IsStr(ret.mac)
   /\ SinCoincidencia(ret.resp, mac_norm(ret.mac.s)))
    => /\ ~ ret.result.raise
       /\ IF EnTabla(mac_norm(ret.mac.s))
          THEN /\ ret.result.dpid = mac_map[FilaDe(mac_norm(ret.mac.s))].dpid
               /\ ret.result.port = mac_map[FilaDe(mac_norm(ret.mac.s))].port
          ELSE /\ ret.result.dpid = ap_generico.dpid
               /\ ret.result.port = ap_generico.port
       /\ \A m \in MacsConsulta :
            (IsStr(m) /\ mac_norm(m.s) = mac_norm(ret.mac.s))
              => get_attachment_point(m, ret.resp) = ret.result

\* C24: a connection that crear_conexion creates gets an id that no
\* connection in the registry and no recorded flow set has, so registering
\* it overwrites nothing and a failure path deletes only the entry the call
\* added.
C24_IdNuevo ==
  [][/\ (pc = "idle" /\ pc' = "topologia")
          => /\ loc'.conexion.id \notin DOMAIN conexiones
             /\ loc'.conexion.id \notin DOMAIN conexion_flujos
             /\ \A id \in DOMAIN conexiones : conexiones'[id] = conexiones[id]
     /\ (pc \in {"topologia", "build"} /\ pc' = "idle" /\ ret'.result # "True")
          => \A id \in DOMAIN loc.antes : id \in DOMAIN conexiones']_vars

\* the port get_attachment_point gives for the alumno of the call
PuertoAlumno ==
  get_attachment_point(ret.conexion.alumno.mac, ret.resp).port

\* the egress port of the hop before hop i (from 1), the port of the alumno
\* for the first hop
Ingreso(i) ==
  IF i = 1 THEN PuertoAlumno ELSE ret.ruta[i - 1][2]

\* C25: for every hop of the path the rules of build_route have as ingress
\* port the attachment port of the alumno on the first hop and the egress
\* port of the previous hop otherwise; the forward data and forward ARP rules
\* match the ingress port and output on the egress port of the hop, the
\* reverse data and reverse ARP rules match the egress port and output on
\* the ingress port.
C25_PuertosDeLasReglas ==
  (ret.op = "build_route" /\ ret.result)
    => /\ Len(conexion_flujos[ret.conexion.id]) = 4 * Len(ret.ruta)
       /\ \A i \in 1..Len(ret.ruta) :
            LET c == ret.conexion
                sw == ret.ruta[i][1]
                out == ret.ruta[i][2]
                in == Ingreso(i)
                fl == conexion_flujos[c.id]
                b == 4 * (i - 1)
                igual(f, g) == f.switch = g.switch /\ f.in_port = g.in_port
                                /\ f.actions = g.actions /\ f.name = g.name
                regla(f, entra, sale) == /\ f.switch = sw
                                         /\ f.in_port = ToString(entra)
                                         /\ f.actions = "output=" \o ToString(sale)
            IN /\ fl[b + 1].nombre = flow_forward(c, sw, in, out).name
               /\ fl[b + 2].nombre = flow_reverse(c, sw, in, out).name
               /\ igual(fl[b + 3].flujo, flow_arp_forward(c, sw, in, out))
               /\ igual(fl[b + 4].flujo, flow_arp_reverse(c, sw, in, out))
               /\ regla(flow_forward(c, sw, in, out), in, out)
               /\ regla(flow_arp_forward(c, sw, in, out), in, out)
               /\ regla(flow_reverse(c, sw, in, out), out, in)
               /\ regla(flow_arp_reverse(c, sw, in, out), out, in)

\* a two-hop path installed for an alumno whom the controller places on a
\* port that is not the egress port of the first hop
C25_Witness ==
  /\ ret.op = "build_route" /\ ret.result
  /\ Len(ret.ruta) = 2
  /\ PuertoAlumno = 4
  /\ ret.ruta[1][2] # PuertoAlumno

\* course k of cursos is being taught, has the alumno as member and a grant
\* for the server that permits the service
CursoCubre(k, codigo_alumno, nombre_servidor, nombre_servicio) ==
  /\ cursos[k].estado = "DICTANDO"
  /\ \E j \in 1..Len(cursos[k].alumnos) : cursos[k].alumnos[j] = codigo_alumno
  /\ \E g \in 1..Len(cursos[k].servidores) :
       /\ cursos[k].servidores[g].srv.nombre = nombre_servidor
       /\ \E q \in 1..Len(cursos[k].servidores[g].servicios_permitidos) :
            lower(cursos[k].servidores[g].servicios_permitidos[q])
              = lower(nombre_servicio)

\* C26: when several courses being taught authorize the request, the course
\* reported as curso_autorizador is the first one in insertion order that
\* has the alumno as member and a matching grant.
C26_PrimerCursoGana ==
  [][(pc = "idle" /\ pc' = "topologia")
       => \E k \in 1..Len(cursos) :
            /\ cursos[k].codigo = loc'.curso
            /\ CursoCubre(k, loc'.codigo_alumno, loc'.nombre_servidor, loc'.nombre_servicio)
            /\ \A h \in 1..(k - 1) :
                 ~ CursoCubre(h, loc'.codigo_alumno, loc'.nombre_servidor,
                              loc'.nombre_servicio)]_vars

\* an approved request that a later course covers as well
C26_Witness ==
  /\ pc = "topologia"
  /\ \E k \in 1..Len(cursos), h \in 1..Len(cursos) :
       /\ k < h
       /\ cursos[k].codigo = loc.curso
       /\ CursoCubre(k, loc.codigo_alumno, loc.nombre_servidor, loc.nombre_servicio)
       /\ CursoCubre(h, loc.codigo_alumno, loc.nombre_servidor, loc.nombre_servicio)

\* C27: borrar_conexion on an id that is not in the registry returns False
\* and changes neither conexiones nor conexion_flujos, and the call goes
\* past its lookup only for a registered id; a borrar_conexion of the id
\* that the call before it removed returns False; borrar_conexion
\* adds nothing to the registry, and an id enters the registry only with a
\* connection that crear_conexion has just created.
C27_BorrarDesconocida ==
  [][/\ (pc = "idle" /\ ret'.op = "borrar_conexion"
           /\ ret'.id_conexion \notin DOMAIN conexiones)
          => /\ ret'.result = FALSE
             /\ pc' = "idle"
             /\ UNCHANGED <<conexiones, conexion_flujos>>
     /\ (pc = "idle" /\ pc' = "borrar_del")
          => loc'.id_conexion \in DOMAIN conexiones
     /\ (ret.op = "borrar_conexion" /\ ret.result = TRUE)
          => /\ (ret'.op = "borrar_conexion" /\ ret'.id_conexion = ret.id_conexion)
                  => ret'.result = FALSE
             /\ pc' = "borrar_del" => loc'.id_conexion # ret.id_conexion
     /\ (pc = "borrar_del" \/ pc' = "borrar_del" \/ ret'.op = "borrar_conexion")
          => DOMAIN conexiones' \subseteq DOMAIN conexiones
     /\ \A id \in DOMAIN conexiones' :
          id \notin DOMAIN conexiones
            => (pc = "idle" /\ pc' = "topologia" /\ loc'.conexion.id = id)]_vars

\* a second borrar_conexion of a connection that was torn down while its
\* flow set stayed behind
C27_Witness ==
  /\ ret.op = "borrar_conexion"
  /\ ret.result = FALSE
  /\ ret.id_conexion \notin DOMAIN conexiones
  /\ ret.id_conexion \in DOMAIN conexion_flujos

\* C28: borrar_conexion calls eliminar_flujos for a connection that has a
\* flow-set entry before it deletes the connection from the registry: the
\* registry is untouched by the step that looks the flows up, and the step
\* that deletes the entry comes after eliminar_flujos returned, or finds no
\* flow-set entry for the id.
C28_FlujosPrimero ==
  [][/\ (pc = "idle" /\ pc' = "borrar_del")
          => /\ conexiones' = conexiones
             /\ loc'.id_conexion \in DOMAIN conexion_flujos
                  => loc'.eliminar \in {"True", "False"}
             /\ loc'.eliminar = "True"
                  => loc'.id_conexion \notin DOMAIN conexion_flujos'
     /\ (pc = "borrar_del" /\ pc' = "idle")
          => /\ conexion_flujos' = conexion_flujos
             /\ (loc.eliminar = "no" => loc.id_conexion \notin DOMAIN conexion_flujos)]_vars

\* the connection is about to be deleted although eliminar_flujos, called
\* first, could not remove its flow set
C28_Witness ==
  /\ pc = "borrar_del"
  /\ loc.eliminar = "False"
  /\ loc.id_conexion \in DOMAIN conexiones
  /\ loc.id_conexion \in DOMAIN conexion_flujos

\* the action of an actualizar_curso call as the method reads it
AccionLeida(accion) ==
  lower(accion)

\* C29: actualizar_curso returns False and leaves the member list of every
\* course as it was when the course code is unknown, when the code of the
\* alumno is not in the catalog, or when the action (read without regard to
\* case) is neither 'agregar' nor 'eliminar'; 'eliminar' for an alumno who is
\* not a member leaves the member lists as they were.
C29_ActualizarRechaza ==
  [][(pc = "idle" /\ ret'.op = "actualizar_curso")
       => LET k == CursoIndex(cursos, ret'.codigo_curso)
          IN /\ (\/ k = 0
                 \/ ret'.codigo_alumno \notin DOMAIN alumnos
                 \/ AccionLeida(ret'.accion) \notin {lower(acc_agregar), lower(acc_eliminar)})
                  => /\ ret'.result = FALSE
                     /\ cursos' = cursos
             /\ (/\ AccionLeida(ret'.accion) = lower(acc_eliminar)
                 /\ k # 0
                 /\ ~ InList(ret'.codigo_alumno, cursos[k].alumnos))
                  => cursos' = cursos]_vars

\* turned down for a code that no alumno has, in a course that exists and
\* with an action the method knows
C29_Witness ==
  /\ ret.op = "actualizar_curso"
  /\ ~ ret.result
  /\ CursoIndex(cursos, ret.codigo_curso) # 0
  /\ ret.codigo_alumno \notin DOMAIN alumnos
  /\ AccionLeida(ret.accion) = lower(acc_agregar)

\* a course record with every field the loader reads
CursoCompleto(d) ==
  /\ {"codigo", "nombre", "estado"} \subseteq DOMAIN d
  /\ "servidores" \in DOMAIN d
       => \A g \in 1..Len(d.servidores) :
            {"nombre", "servicios_permitidos"} \subseteq DOMAIN d.servidores[g]

\* the document has a course record that lacks a field, and complete server
\* and alumno records
ConCursoIncompleto(d) ==
  /\ \E j \in 1..Len(d.cursos) : ~ CursoCompleto(d.cursos[j])
  /\ \A j \in 1..Len(d.servidores) : {"nombre", "ip"} \subseteq DOMAIN d.servidores[j]
  /\ \A j \in 1..Len(d.alumnos) : {"nombre", "codigo", "mac"} \subseteq DOMAIN d.alumnos[j]

\* C30: when importar_archivo meets a course record that lacks a required
\* field the import returns True, that course is not in cursos at all, and
\* every server, every alumno and every complete course of the document is
\* loaded.
C30_CursoIncompletoOmitido ==
  (/\ ret.op = "importar_archivo"
   /\ \E d \in DocumentosExport : d.ruta_archivo = ret.ruta_archivo
   /\ ConCursoIncompleto(Documento(ret.ruta_archivo)))
    => LET d == Documento(ret.ruta_archivo)
           completos == { j \in 1..Len(d.cursos) : CursoCompleto(d.cursos[j]) }
       IN /\ ret.result
          /\ DOMAIN servidores = { d.servidores[j].nombre : j \in 1..Len(d.servidores) }
          /\ \A j \in 1..Len(d.servidores) :
               Len(servidores[d.servidores[j].nombre].servicios)
                 = Len(d.servidores[j].servicios)
          /\ DOMAIN alumnos = { d.alumnos[j].codigo : j \in 1..Len(d.alumnos) }
          /\ { cursos[k].codigo : k \in 1..Len(cursos) }
               = { d.cursos[j].codigo : j \in completos }
          /\ Len(cursos) = Cardinality(completos)
          /\ \A j \in completos :
               \E k \in 1..Len(cursos) :
                 /\ cursos[k].codigo = d.cursos[j].codigo
                 /\ cursos[k].nombre = d.cursos[j].nombre
                 /\ cursos[k].estado = d.cursos[j].estado
                 /\ cursos[k].alumnos = d.cursos[j].alumnos
                 /\ Len(cursos[k].servidores) = Len(d.cursos[j].servidores)

\* two course records were skipped and the complete course listed after
\* them is in the catalog
C30_Witness ==
  /\ ret.op = "importar_archivo" /\ ret.result
  /\ ret.ruta_archivo = DocCursoIncompleto.ruta_archivo
  /\ Len(cursos) = 2
  /\ cursos[2].codigo = "TEL7"

\* C31: whenever importar_archivo returns False, for a file that cannot be
\* read or for a server or alumno record that is structurally invalid, the
\* catalog (alumnos, servidores, cursos) is exactly what it was before the call
C31_RechazoSinCambios ==
  [][(ret'.op = "importar_archivo" /\ ret'.result = FALSE)
       => UNCHANGED <<alumnos, servidores, claves, cursos>>]_vars

\* entry j is in table d before the step exactly if it is after it, with the
\* same value
MismaEntrada(d, e, j) ==
  /\ j \in DOMAIN d <=> j \in DOMAIN e
  /\ j \in DOMAIN d => e[j] = d[j]

\* C32: borrar_conexion(id) leaves every other connection and the flow-set
\* entry of every other connection unchanged, also when another active
\* connection was created for the same alumno, server and service and
\* crosses the same switches and ports
C32_BorrarSoloLaSuya ==
  [][/\ (pc = "idle" /\ pc' = "borrar_del") =>
          \A j \in IDsPar \ {loc'.id_conexion} :
            /\ MismaEntrada(conexiones, conexiones', j)
            /\ MismaEntrada(conexion_flujos, conexion_flujos', j)
     /\ (pc = "idle" /\ ret'.op = "borrar_conexion") =>
          UNCHANGED <<conexiones, conexion_flujos>>
     /\ pc = "borrar_del" =>
          \A j \in IDsPar \ {loc.id_conexion} :
            /\ MismaEntrada(conexiones, conexiones', j)
            /\ MismaEntrada(conexion_flujos, conexion_flujos', j)]_vars

\* borrar_conexion has removed the flows of one of two installed connections
\* of the same alumno, server and service over the same route; the other one
\* still has its flows
C32_Witness ==
  /\ pc = "borrar_del"
  /\ loc.id_conexion \notin DOMAIN conexion_flujos
  /\ \E j \in IDsPar \ {loc.id_conexion} :
       /\ j \in DOMAIN conexiones /\ j \in DOMAIN conexion_flujos
       /\ conexion_flujos[j] # <<>>
       /\ conexiones[j].alumno = conexiones[loc.id_conexion].alumno
       /\ conexiones[j].servidor = conexiones[loc.id_conexion].servidor
       /\ conexiones[j].servicio = conexiones[loc.id_conexion].servicio
       /\ conexiones[j].ruta = conexiones[loc.id_conexion].ruta

\* names of the servers a document lists
ServidoresDe(d) ==
  { d.servidores[j].nombre : j \in 1..Len(d.servidores) }

\* the grants of a course record whose server the document lists
GrantsConServidor(d, j) ==
  { g \in 1..Len(d.cursos[j].servidores) :
      d.cursos[j].servidores[g].nombre \in ServidoresDe(d) }

\* C33: after every importar_archivo that returns True, each grant of each
\* course in cursos holds the server stored in servidores under that name;
\* the grants of the document that name a server the document does not list
\* are not stored
C33_GrantsDelCatalogo ==
  (ret.op = "importar_archivo" /\ ret.result)
    => /\ \A k \in 1..Len(cursos) : \A g \in 1..Len(cursos[k].servidores) :
            LET srv == cursos[k].servidores[g].srv
            IN /\ srv.nombre \in DOMAIN servidores
               /\ servidores[srv.nombre] = srv
       /\ (\E d \in DocumentosExport : d.ruta_archivo = ret.ruta_archivo)
            => LET d == Documento(ret.ruta_archivo)
               IN \A j \in 1..Len(d.cursos) :
                    CursoCompleto(d.cursos[j])
                      => \E k \in 1..Len(cursos) :
                           /\ cursos[k].codigo = d.cursos[j].codigo
                           /\ Len(cursos[k].servidores)
                                = Cardinality(GrantsConServidor(d, j))

\* a document with a grant for server S9, which it does not list, was
\* imported: the course is loaded with its grant for S1 only
C33_Witness ==
  /\ ret.op = "importar_archivo" /\ ret.result
  /\ ret.ruta_archivo = DocNumerico.ruta_archivo
  /\ Len(DocNumerico.cursos[1].servidores) = 2
  /\ Len(cursos) = 1
  /\ Len(cursos[1].servidores) = 1
  /\ cursos[1].servidores[1].srv = servidores["S1"]
  /\ "S9" \notin DOMAIN servidores

\* the flows recorded for connection id are four per hop of its route, the
\* four of hop k before those of hop k + 1 and on the switch of hop k
HopsEnOrden(id) ==
  LET c == conexiones[id]
      fs == conexion_flujos[id]
  IN /\ Len(fs) = 4 * Len(c.ruta)
     /\ \A k \in 1..Len(c.ruta) :
          \E in_port \in 0..9 :
            SubSeq(fs, 4 * (k - 1) + 1, 4 * k)
              = entradas_hop(c, c.ruta[k][1], in_port, c.ruta[k][2])

\* C34: provided every controller request returns, each crear_conexion
\* request ends, and ends in exactly one of two outcomes: it returns True
\* with the connection registered and the flows of every hop recorded hop
\* after hop in path order, four per hop, or it returns False
C34_UnResultado ==
  WF_vars(Continuar)
    => /\ [](ret.op = "crear_conexion"
               => \/ /\ ret.result = "True"
                     /\ Instalada(ret.id)
                     /\ HopsEnOrden(ret.id)
                  \/ ret.result = "False")
       /\ (pc \in {"topologia", "build"}) ~> (pc = "idle" /\ ret.op = "crear_conexion")

====
